---- MODULE Spec2Model ----
(***************************************************************************)
(* Sandbox trading engine of FinanceBackend (src/blueprints/sandbox.py)    *)
(* over the statement-at-a-time store of src/database.py.                  *)
(*                                                                         *)
(* Every call of database.query opens a connection, runs ONE statement and *)
(* commits it, so each statement is one atomic step of the request that    *)
(* issues it and nothing groups the statements of a request.  A request    *)
(* handler is a sequence of such steps; requests of different threads      *)
(* interleave between steps.  A call of the market-data provider is a wait *)
(* during which the other threads run: the read of _CACHE before it and    *)
(* the write of _CACHE after it belong to different steps.                 *)
(*                                                                         *)
(* Units.  The code computes in binary floating point.  The model keeps    *)
(* every number an integer multiple of a power of two, where that          *)
(* arithmetic is exact:                                                    *)
(*   quantity : multiples of 1/QtyDenom share   (QtyDenom = 2^21)          *)
(*   cash     : multiples of 1/CashDenom dollar (CashDenom = 2^10)         *)
(*   price    : multiples of QtyDenom/CashDenom = 2048 dollars per share   *)
(* so that price * quantity is a cash amount in cash units.  An average    *)
(* buy price is a quotient and is kept as a reduced fraction <<n, d>> of   *)
(* price units.  A value computed from such a quotient, and every value of  *)
(* the equity snapshots, is a reduced fraction <<n, d>> of cash units; a    *)
(* value the code rounds to cents is the fraction of that many cents.       *)
(* The store keeps the numbers it is given (the repository does not hold    *)
(* the schema of its tables).  On amounts that are not such multiples the   *)
(* code's arithmetic rounds: the runs of SpecFloat compute trade_stock in   *)
(* IEEE-754 doubles, on decimal amounts as a request body carries them.     *)
(*                                                                         *)
(* Time.  now is the wall clock in seconds; a row's executed_at is the      *)
(* clock value at its insertion, and rows inserted later are later in       *)
(* executed_at order, so insertion order is executed_at order.              *)
(***************************************************************************)
EXTENDS Integers, Sequences, FiniteSets, TLC

(***************************************************************************)
(* Bounds of the model.                                                    *)
(***************************************************************************)
\* at most this many requests are started
MaxTrades == 2
\* at most this many trade requests are started where only the owner trades
MaxOwnerTrades == 3
\* the clock advances at most this many times
MaxTicks == 1
\* at most this many steps of the clock in the runs about the price cache
MaxPriceTicks == 3
\* at most this many trade requests are started in the runs in doubles
MaxFloatTrades == 2

(***************************************************************************)
(* Program constants.                                                      *)
(***************************************************************************)
\* new_qty <= 0.000001 : one share is this many epsilons
MicroPerShare == 1000000
\* _CACHE[price_...] = (price, now + 300)
PRICE_TTL == 300
\* _CACHE[eq_hist_...] = (history, now + 900)
HISTORY_TTL == 900
\* seconds of one calendar day (datetime.date.today())
DaySeconds == 86400
\* timestamp() * 1000 : milliseconds of one second
Millis == 1000
\* gain_loss_percent: ... / avg_price * 100
Percent == 100

QtyDenom == 2 ^ 21
CashDenom == 2 ^ 10

Procs == {1, 2}
Users == {1, 2, 3}
SandboxIds == {1, 2, 3}
Symbols == {"X", "Y"}
\* what the market-data provider can report as a last price, in price units
Prices == {1, 2}
\* request bodies: "" is a missing symbol or an unknown trade type
BodySymbols == Symbols \cup {""}
BodyTypes == {"BUY", "SELL", ""}
\* (quantity, amount) of a request body; amount is used when quantity <= 0
BodyQuantities == {<<0, 0>>, <<1, 0>>, <<3, 0>>, <<4, 0>>, <<0, 4>>}
\* balances a sandbox can have been created with, in cash units
InitialBalances == {4, 6}
\* the calendar days the clock can reach, day 0 being the day of creation
Days == 0 .. MaxTicks

VARIABLES
    sandboxes,        \* table sandboxes: id -> row (exists, user_id, balance, initial_balance)
    sandbox_shares,   \* table sandbox_shares: set of rows (id, sandbox_id, owner_id, shared_with_id, permission)
    portfolio,        \* table sandbox_portfolio: sequence of rows, in insertion order
    transactions,     \* table sandbox_transactions: sequence of rows, in insertion order
    equity_history,   \* table sandbox_equity_history: set of rows, key (sandbox_id, snapshot_date)
    price_cache,      \* _CACHE["price_<symbol>"], each entry with the clock its lookup read
    eq_cache,         \* _CACHE["eq_hist_<sandbox_id>"]
    now,              \* the wall clock, in seconds
    proc,             \* the request each thread is serving: its body, locals and position
    started,          \* number of requests started so far
    ticks,            \* number of clock advances so far
    base,             \* the store when a request last started with no other in flight
    earlier,          \* the ledger when the request before that one started
    last_write,       \* (sandbox, date) -> the values of the latest snapshot write
    seeded,           \* sandbox -> the latest run of _seed_equity_history that returned
    sequences         \* the next id of the tables sandboxes and sandbox_shares

vars == <<sandboxes, sandbox_shares, portfolio, transactions, equity_history,
          price_cache, eq_cache, now, proc, started, ticks, base, earlier, last_write,
          seeded, sequences>>

(***************************************************************************)
(* Arithmetic helpers.                                                     *)
(***************************************************************************)
RECURSIVE GCD(_, _)
GCD(a, b) == IF b = 0 THEN a ELSE GCD(b, a % b)

\* the fraction n/d (d > 0) in lowest terms
Frac(n, d) == LET g == GCD(n, d) IN IF g = 0 THEN <<0, 1>> ELSE <<n \div g, d \div g>>

\* Python round(x, 2) of a cash amount x (in cash units), in cents: to the
\* nearest cent, a tie going to the even cent
Round2(x) ==
    LET n == x * 100
        q == n \div CashDenom
        r == n % CashDenom
    IN  IF 2 * r < CashDenom THEN q
        ELSE IF 2 * r > CashDenom THEN q + 1
        ELSE IF q % 2 = 0 THEN q ELSE q + 1

\* datetime.date.today(): the calendar day of a clock value
Today(t) == t \div DaySeconds

RECURSIVE SumSeq(_)
SumSeq(s) == IF s = <<>> THEN 0 ELSE Head(s) + SumSeq(Tail(s))

Indices(s) == 1 .. Len(s)

\* s[::-1]
Reverse(s) == [i \in Indices(s) |-> s[Len(s) + 1 - i]]

\* arithmetic of fractions <<n, d>> with d > 0
Exact(x) == <<x, 1>>

FAdd(a, b) == Frac(a[1] * b[2] + b[1] * a[2], a[2] * b[2])

FSub(a, b) == Frac(a[1] * b[2] - b[1] * a[2], a[2] * b[2])

FMul(a, k) == Frac(a[1] * k, a[2])

\* a / b for b > 0
FDiv(a, b) == Frac(a[1] * b[2], a[2] * b[1])

RECURSIVE FSum(_)
FSum(s) == IF s = <<>> THEN Exact(0) ELSE FAdd(Head(s), FSum(Tail(s)))

\* an amount of c cents, in cash units
Cents(c) == Frac(c * CashDenom, 100)

\* the sum of f[x] over the domain of f
RECURSIVE SumOf(_)
SumOf(f) ==
    IF DOMAIN f = {} THEN 0
    ELSE LET x == CHOOSE x \in DOMAIN f : TRUE
         IN  f[x] + SumOf([y \in DOMAIN f \ {x} |-> f[y]])

(***************************************************************************)
(* IEEE-754 binary64 arithmetic.                                           *)
(*                                                                         *)
(* The ledger arithmetic of trade_stock is Python float arithmetic: every  *)
(* +, -, * and / returns the double nearest to the exact result, a tie     *)
(* going to the even mantissa.  A double x >= 0 is the record              *)
(* [m |-> M, e |-> E] with x = M * 2^E, where M is a natural number of     *)
(* exactly 53 bits (zero is m = <<>>, e = 0); a natural number is the      *)
(* sequence of its digits in base Limb, the lowest first.  The handlers    *)
(* never form a negative number, an infinity or a subnormal from the       *)
(* amounts of this model.                                                  *)
(***************************************************************************)
LimbBits == 13
Limb == 2 ^ LimbBits
\* the bits of a double's mantissa
MantissaBits == 53

Digit(a, i) == IF i \in 1 .. Len(a) THEN a[i] ELSE 0

\* the index of the highest digit of a that is not 0, or 0
Highest(a) ==
    CHOOSE i \in 0 .. Len(a) :
        /\ i > 0 => a[i] # 0
        /\ \A j \in i + 1 .. Len(a) : a[j] = 0

\* a without its leading zero digits
Trim(a) == SubSeq(a, 1, Highest(a))

\* each digit sum of s reduced below Limb, what it exceeds Limb by moved to
\* the next digit
Pass(s) ==
    IF s = <<>> THEN <<>>
    ELSE Trim([i \in 1 .. Len(s) + 1 |->
                  (Digit(s, i) % Limb) + (Digit(s, i - 1) \div Limb)])

\* the digits of the number whose digit sums are s, each from 0 to Limb: a
\* digit sum of Limb carries 1, which runs on through digits of Limb - 1
Carried(s) ==
    LET In(i) == \E j \in 1 .. i - 1 :
                    s[j] = Limb /\ \A k \in j + 1 .. i - 1 : s[k] = Limb - 1
    IN  IF s = <<>> THEN <<>>
        ELSE Trim([i \in 1 .. Len(s) + 1 |->
                      (Digit(s, i) + (IF In(i) THEN 1 ELSE 0)) % Limb])

\* the digits of the number whose digit sums are s, each from -1 to Limb - 1
\* and the number not negative: a digit sum of -1 borrows 1, which runs on
\* through digits of 0
Borrowed(s) ==
    LET In(i) == \E j \in 1 .. i - 1 :
                    s[j] = -1 /\ \A k \in j + 1 .. i - 1 : s[k] = 0
    IN  IF s = <<>> THEN <<>>
        ELSE Trim([i \in 1 .. Len(s) |-> (s[i] - (IF In(i) THEN 1 ELSE 0)) % Limb])

\* the digits of the number whose digit sums are s, each of them from 0 to
\* below 2^31
Carry(s) == Carried(Pass(Pass(Pass(s))))

Big(n) == Carry(<<n>>)

BigAdd(a, b) ==
    LET n == IF Len(a) > Len(b) THEN Len(a) ELSE Len(b)
    IN  IF a = <<>> THEN b
        ELSE IF b = <<>> THEN a
        ELSE Carried(Pass([i \in 1 .. n |-> Digit(a, i) + Digit(b, i)]))

\* a - b for a >= b
BigSub(a, b) ==
    IF b = <<>> THEN a
    ELSE IF a = b THEN <<>>
    ELSE Borrowed(Pass([i \in 1 .. Len(a) |-> a[i] - Digit(b, i)]))

\* the sum of a[i] * b[k + 1 - i] over i from lo to hi
RECURSIVE Column(_, _, _, _, _)
Column(a, b, k, lo, hi) ==
    IF lo > hi THEN 0
    ELSE IF lo = hi THEN a[lo] * Digit(b, k + 1 - lo)
    ELSE LET mid == (lo + hi) \div 2
         IN  Column(a, b, k, lo, mid) + Column(a, b, k, mid + 1, hi)

BigMul(a, b) ==
    LET s == Trim([k \in 1 .. Len(a) + Len(b) |-> Column(a, b, k, 1, Len(a))])
    IN  IF a = <<>> \/ b = <<>> \/ s = <<>> THEN <<>> ELSE Carry(s)

BigLess(a, b) ==
    IF Len(a) # Len(b) THEN Len(a) < Len(b)
    ELSE \E i \in 1 .. Len(a) :
            a[i] < b[i] /\ \A j \in i + 1 .. Len(a) : a[j] = b[j]

\* the number of bits of a
BitLength(a) ==
    IF a = <<>> THEN 0
    ELSE LimbBits * (Len(a) - 1)
         + (CHOOSE k \in 1 .. LimbBits : 2 ^ (k - 1) <= a[Len(a)] /\ a[Len(a)] < 2 ^ k)

\* 2^k
Pow2(k) == [i \in 1 .. k \div LimbBits |-> 0] \o <<2 ^ (k % LimbBits)>>

\* a * 2^k
ShiftLeft(a, k) ==
    LET w == k \div LimbBits
        r == k % LimbBits
    IN  IF a = <<>> THEN <<>>
        ELSE Trim([i \in 1 .. Len(a) + w + 1 |->
                      ((Digit(a, i - w) * 2 ^ r) % Limb)
                      + ((Digit(a, i - w - 1) * 2 ^ r) \div Limb)])

\* a \div 2^k
ShiftRight(a, k) ==
    LET w == k \div LimbBits
        r == k % LimbBits
    IN  IF Len(a) <= w THEN <<>>
        ELSE Trim([i \in 1 .. Len(a) - w |->
                      (a[i + w] \div 2 ^ r)
                      + (Digit(a, i + w + 1) % 2 ^ r) * 2 ^ (LimbBits - r)])

\* a % 2^k
LowBits(a, k) ==
    LET w == k \div LimbBits
        r == k % LimbBits
    IN  IF a = <<>> THEN <<>>
        ELSE Trim([i \in 1 .. w + 1 |->
                      IF i <= w THEN Digit(a, i) ELSE Digit(a, i) % 2 ^ r])

\* the largest number of a set of numbers
Largest(S) == CHOOSE d \in S : \A c \in S : c <= d

\* the largest digit d with b * d <= r, for r < b * Limb and the highest
\* digit of b at least Limb / 2: at most 2 below the quotient of the two
\* highest digits of r by the highest digit of b
QuotientDigit(r, b) ==
    LET n == Len(b)
        guess == (Digit(r, n + 1) * Limb + Digit(r, n)) \div b[n]
        top == IF guess < Limb THEN guess ELSE Limb - 1
    IN  Largest({d \in top - 2 .. top : d = 0 \/ (d > 0 /\ ~BigLess(r, BigMul(<<d>>, b)))})

\* r divided by b, the quotient being the digit d
DivStep(r, b, d) ==
    [quotient |-> <<d>>,
     remainder |-> IF d = 0 THEN r ELSE BigSub(r, BigMul(<<d>>, b))]

\* long division of the digits lo .. hi of a by b, r being what the digits
\* above them left; the digits of the quotient are given highest first
RECURSIVE DivFrom(_, _, _, _, _)
DivFrom(a, b, lo, hi, r) ==
    IF lo = hi
    THEN LET r2 == Trim(<<a[lo]>> \o r)
         IN  DivStep(r2, b, QuotientDigit(r2, b))
    ELSE LET mid == (lo + hi) \div 2
             high == DivFrom(a, b, mid + 1, hi, r)
             low == DivFrom(a, b, lo, mid, high.remainder)
         IN  [quotient |-> high.quotient \o low.quotient, remainder |-> low.remainder]

\* the result x of a long division whose two numbers were multiplied by 2^s
Unscaled(x, s) ==
    [quotient |-> Trim(Reverse(x.quotient)), remainder |-> ShiftRight(x.remainder, s)]

\* a by b, the highest digit of b being at least Limb / 2
LongDivision(a, b) == DivFrom(a, b, 1, Len(a), <<>>)

\* a by b, both multiplied by 2^s
Scaled(a, b, s) == Unscaled(LongDivision(ShiftLeft(a, s), ShiftLeft(b, s)), s)

\* quotient and remainder of a by b > 0; b is first made to have a highest
\* digit of at least Limb / 2
BigDivMod(a, b) ==
    IF BigLess(a, b) THEN [quotient |-> <<>>, remainder |-> a]
    ELSE Scaled(a, b, (LimbBits - (BitLength(b) % LimbBits)) % LimbBits)

Zero == [m |-> <<>>, e |-> 0]

\* n \div 2^k rounded to the nearest on the k bits left out, a tie going to
\* the even number, or up when n stands for a value just above it
Nearest(n, k, inexact) ==
    LET q == ShiftRight(n, k)
        r == LowBits(n, k)
        half == Pow2(k - 1)
    IN  IF BigLess(half, r) \/ (r = half /\ (inexact \/ Digit(q, 1) % 2 = 1))
        THEN BigAdd(q, <<1>>)
        ELSE q

\* m * 2^e for m of 53 or 54 bits, as a double
Renormal(m, e) ==
    IF BitLength(m) > MantissaBits THEN [m |-> ShiftRight(m, 1), e |-> e + 1]
    ELSE [m |-> m, e |-> e]

\* RoundFloat for n of l bits
Rounded(n, e, inexact, l) ==
    IF l <= MantissaBits
    THEN [m |-> ShiftLeft(n, MantissaBits - l), e |-> e - (MantissaBits - l)]
    ELSE Renormal(Nearest(n, l - MantissaBits, inexact), e + (l - MantissaBits))

\* the double nearest to n * 2^e, or to a value just above it when inexact
\* (n then has more than 54 bits); a tie goes to the even mantissa
RoundFloat(n, e, inexact) ==
    IF n = <<>> THEN Zero ELSE Rounded(n, e, inexact, BitLength(n))

\* the exact value n * 2^e of two doubles on their common exponent
Aligned(a, b) ==
    LET e == IF a.e < b.e THEN a.e ELSE b.e
    IN  [a |-> ShiftLeft(a.m, a.e - e), b |-> ShiftLeft(b.m, b.e - e), e |-> e]

\* a < b
FloatLess(a, b) ==
    IF b = Zero THEN FALSE
    ELSE IF a = Zero THEN TRUE
    ELSE IF a.e # b.e THEN a.e < b.e
    ELSE BigLess(a.m, b.m)

\* a <= b
FloatLessEq(a, b) == ~FloatLess(b, a)

\* the double nearest to the sum of the two numbers of x
RoundSum(x) == RoundFloat(BigAdd(x.a, x.b), x.e, FALSE)

\* the double nearest to the difference of the two numbers of x
RoundDifference(x) == RoundFloat(BigSub(x.a, x.b), x.e, FALSE)

\* a + b
FloatAdd(a, b) ==
    IF a = Zero THEN b
    ELSE IF b = Zero THEN a
    ELSE RoundSum(Aligned(a, b))

\* a - b for a >= b
FloatSub(a, b) == IF b = Zero THEN a ELSE RoundDifference(Aligned(a, b))

\* a * b
FloatMul(a, b) ==
    IF a = Zero \/ b = Zero THEN Zero
    ELSE RoundFloat(BigMul(a.m, b.m), a.e + b.e, FALSE)

\* the double nearest to the quotient of the division d, times 2^e
RoundQuotient(d, e) == RoundFloat(d.quotient, e, d.remainder # <<>>)

\* bits of the quotient kept before it is rounded
GuardBits == 60

\* a / b for b > 0
FloatDiv(a, b) ==
    IF a = Zero THEN Zero
    ELSE RoundQuotient(BigDivMod(ShiftLeft(a.m, GuardBits), b.m), a.e - b.e - GuardBits)

\* bits of a decimal's quotient kept before it is rounded
DecimalBits == 90

\* float("n / 10^d"): the double nearest to the decimal of numerator n (a
\* natural number in digits) with d decimal places
DecimalFloat(n, d) ==
    RoundQuotient(BigDivMod(ShiftLeft(n, DecimalBits), Big(10 ^ d)), -DecimalBits)

\* the double a JSON body or a literal of the code gives for the decimal
\* n / 10^d, n an integer
Float(n, d) == DecimalFloat(Big(n), d)

\* n * 2^e to the nearest whole number, a tie going to the even one
Whole(n, e) == IF e >= 0 THEN ShiftLeft(n, e) ELSE Nearest(n, -e, FALSE)

\* round(x, 2): the exact value of x to the nearest cent, a tie going to the
\* even cent, and the double nearest to that decimal
FloatRound2(x) ==
    IF x = Zero THEN Zero
    ELSE DecimalFloat(Whole(BigMul(x.m, <<100>>), x.e), 2)

\* sum(...) of a list of doubles: from the int 0, the terms added from the left
RECURSIVE FloatSum(_)
FloatSum(s) ==
    IF s = <<>> THEN Zero
    ELSE FloatAdd(FloatSum(SubSeq(s, 1, Len(s) - 1)), s[Len(s)])

\* the exact sum of two numbers m * 2^e
ExactAdd(a, b) == LET x == Aligned(a, b) IN [m |-> BigAdd(x.a, x.b), e |-> x.e]

\* the exact product of two numbers m * 2^e
ExactMul(a, b) == [m |-> BigMul(a.m, b.m), e |-> a.e + b.e]

\* two numbers m * 2^e are the same number
ExactEqual(a, b) == LET x == Aligned(a, b) IN x.a = x.b

(***************************************************************************)
(* The store: rows and the statements the handlers run on them.            *)
(***************************************************************************)
NoSandbox == [exists |-> FALSE, user_id |-> 0, balance |-> 0, initial_balance |-> 0,
              created_at |-> 0]

NoLot == [found |-> FALSE, quantity |-> 0, average_buy_price |-> <<0, 1>>]

NoEntry == [present |-> FALSE, val |-> 0, expiry |-> 0, written |-> 0]

\* no _CACHE["eq_hist_<sandbox_id>"]
NoHistory == [present |-> FALSE, val |-> <<>>, expiry |-> 0, fallback |-> FALSE]

\* the tables a trade reads and writes
Store == [sandboxes |-> sandboxes, portfolio |-> portfolio,
          transactions |-> transactions, equity_history |-> equity_history]

\* the ledger of a store: cash balances, lots and transaction log
Ledger(st) == [sandboxes |-> st.sandboxes, portfolio |-> st.portfolio,
               transactions |-> st.transactions]

\* SELECT ... FROM sandboxes WHERE id = %s AND user_id = %s
SelectSandbox(sbs, sid, uid) ==
    IF sbs[sid].exists /\ sbs[sid].user_id = uid THEN sbs[sid] ELSE NoSandbox

\* a variant of the UPDATE without its WHERE clause
FaultyUpdateBalance(sbs, sid, uid, new_balance) ==
    [s \in SandboxIds |-> IF sbs[s].exists THEN [sbs[s] EXCEPT !.balance = new_balance]
                          ELSE sbs[s]]

\* UPDATE sandboxes SET balance = %s WHERE id = %s AND user_id = %s
UpdateBalance(sbs, sid, uid, new_balance) ==
    IF sbs[sid].exists /\ sbs[sid].user_id = uid
    THEN [sbs EXCEPT ![sid].balance = new_balance]
    ELSE sbs

\* WHERE sandbox_id = %s AND symbol = %s AND user_id = %s
LotMatches(row, sid, sym, uid) ==
    row.sandbox_id = sid /\ row.symbol = sym /\ row.user_id = uid

\* the rows a SELECT ... FROM sandbox_portfolio ... fetchone can return: the
\* statement has no ORDER BY, so any matching row, or no row when none matches
SelectLot(pf, sid, sym, uid) ==
    LET hits == {i \in Indices(pf) : LotMatches(pf[i], sid, sym, uid)}
    IN  IF hits = {} THEN {NoLot}
        ELSE {[found |-> TRUE, quantity |-> pf[i].quantity,
               average_buy_price |-> pf[i].average_buy_price] : i \in hits}

\* UPDATE sandbox_portfolio SET quantity = %s, average_buy_price = %s WHERE ...
UpdateLot(pf, sid, sym, uid, qty, avg) ==
    [i \in Indices(pf) |->
        IF LotMatches(pf[i], sid, sym, uid)
        THEN [pf[i] EXCEPT !.quantity = qty, !.average_buy_price = avg]
        ELSE pf[i]]

\* a faulty variant: the UPDATE also sets the average to the quantity
FaultyUpdateLotQuantity(pf, sid, sym, uid, qty) ==
    [i \in Indices(pf) |->
        IF LotMatches(pf[i], sid, sym, uid)
        THEN [pf[i] EXCEPT !.quantity = qty, !.average_buy_price = <<qty, 1>>]
        ELSE pf[i]]

\* UPDATE sandbox_portfolio SET quantity = %s WHERE ...
UpdateLotQuantity(pf, sid, sym, uid, qty) ==
    [i \in Indices(pf) |->
        IF LotMatches(pf[i], sid, sym, uid)
        THEN [pf[i] EXCEPT !.quantity = qty]
        ELSE pf[i]]

\* INSERT INTO sandbox_portfolio (...) VALUES (...)
InsertLot(pf, sid, uid, sym, qty, price) ==
    Append(pf, [sandbox_id |-> sid, user_id |-> uid, symbol |-> sym,
                quantity |-> qty, average_buy_price |-> <<price, 1>>])

\* DELETE FROM sandbox_portfolio WHERE ...
LotKept(row, sid, sym, uid) == ~LotMatches(row, sid, sym, uid)

DeleteLot(pf, sid, sym, uid) ==
    LET Keep(row) == LotKept(row, sid, sym, uid) IN SelectSeq(pf, Keep)

\* SELECT ... FROM sandbox_portfolio WHERE sandbox_id = %s AND user_id = %s
SelectItems(pf, sid, uid) ==
    LET Mine(row) == row.sandbox_id = sid /\ row.user_id = uid IN SelectSeq(pf, Mine)

\* _record_transaction: INSERT INTO sandbox_transactions (...); executed_at is
\* the insertion time
RecordTransaction(txs, sid, sym, type, qty, price, uid, t) ==
    Append(txs, [sandbox_id |-> sid, user_id |-> uid, symbol |-> sym, type |-> type,
                 quantity |-> qty, price |-> price, executed_at |-> t])

\* SELECT ... FROM sandboxes WHERE user_id = %s, each row with its id; ids
\* are handed out in the order of creation
RECURSIVE RowsOfIds(_, _)
RowsOfIds(sbs, ids) ==
    IF ids = {} THEN <<>>
    ELSE LET sid == CHOOSE i \in ids : \A j \in ids : i <= j
         IN  <<[id |-> sid, balance |-> sbs[sid].balance,
                initial_balance |-> sbs[sid].initial_balance,
                created_at |-> sbs[sid].created_at]>>
             \o RowsOfIds(sbs, ids \ {sid})

SelectUserSandboxes(sbs, uid) ==
    RowsOfIds(sbs, {sid \in DOMAIN sbs : sbs[sid].exists /\ sbs[sid].user_id = uid})

\* SELECT * FROM sandbox_portfolio WHERE user_id = %s
SelectUserItems(pf, uid) ==
    LET Mine(row) == row.user_id = uid IN SelectSeq(pf, Mine)

\* SELECT COUNT(*) FROM sandbox_shares WHERE sandbox_id = %s
CountShares(shares, sid) == Cardinality({sh \in shares : sh.sandbox_id = sid})

\* DELETE FROM sandbox_transactions WHERE sandbox_id = %s AND user_id = %s
\* (and the same on sandbox_portfolio)
DeleteRowsOf(table, sid, uid) ==
    LET Keep(row) == ~(row.sandbox_id = sid /\ row.user_id = uid) IN SelectSeq(table, Keep)

\* DELETE FROM sandboxes WHERE id = %s AND user_id = %s
DeleteSandboxRow(sbs, sid, uid) ==
    IF sbs[sid].exists /\ sbs[sid].user_id = uid
    THEN [sbs EXCEPT ![sid] = NoSandbox]
    ELSE sbs

\* SELECT * FROM sandbox_transactions WHERE sandbox_id = %s AND user_id = %s
\* ORDER BY executed_at ASC
SelectTransactions(txs, sid, uid) ==
    LET Mine(row) == row.sandbox_id = sid /\ row.user_id = uid IN SelectSeq(txs, Mine)

\* SELECT total_equity, snapshot_date FROM sandbox_equity_history
\* WHERE sandbox_id = %s ORDER BY snapshot_date ASC
RECURSIVE SortByDate(_)
SortByDate(rows) ==
    IF rows = {} THEN <<>>
    ELSE LET first == CHOOSE r \in rows :
                          \A q \in rows : r.snapshot_date <= q.snapshot_date
         IN  <<first>> \o SortByDate(rows \ {first})

SelectHistory(eh, sid) == SortByDate({r \in eh : r.sandbox_id = sid})

\* a faulty variant: a plain INSERT, whatever rows there are
FaultyRecordEquitySnapshot(eh, sid, uid, total, cash, holdings, date) ==
    eh \cup {[sandbox_id |-> sid, user_id |-> uid, snapshot_date |-> date,
              total_equity |-> total, cash_balance |-> cash, holdings_value |-> holdings]}

\* _record_equity_snapshot: INSERT ... ON CONFLICT (sandbox_id, snapshot_date)
\* DO UPDATE SET total_equity, cash_balance, holdings_value: the rows of the
\* key take the new values and keep their user_id; with no row of the key,
\* the new row is inserted
RecordEquitySnapshot(eh, sid, uid, total, cash, holdings, date) ==
    LET Hit(r) == r.sandbox_id = sid /\ r.snapshot_date = date
    IN  IF \E r \in eh : Hit(r)
        THEN {IF Hit(r)
              THEN [r EXCEPT !.total_equity = total, !.cash_balance = cash,
                             !.holdings_value = holdings]
              ELSE r : r \in eh}
        ELSE eh \cup {[sandbox_id |-> sid, user_id |-> uid, snapshot_date |-> date,
                       total_equity |-> total, cash_balance |-> cash,
                       holdings_value |-> holdings]}

\* no snapshot has been written for a (sandbox, date)
NoWrite == [written |-> FALSE, total_equity |-> Exact(0), cash_balance |-> Exact(0),
            holdings_value |-> Exact(0)]

\* the arguments of the latest _record_equity_snapshot call that went through
RecordWrite(lw, sid, date, total, cash, holdings) ==
    [lw EXCEPT ![<<sid, date>>] =
        [written |-> TRUE, total_equity |-> total, cash_balance |-> cash,
         holdings_value |-> holdings]]

\* one call of _record_equity_snapshot; stored: whether its INSERT succeeds
\* (an exception of it is swallowed there)
WriteSnapshot(stored, sid, uid, total, cash, holdings, date) ==
    /\ equity_history' =
          IF stored
          THEN RecordEquitySnapshot(equity_history, sid, uid, total, cash, holdings, date)
          ELSE equity_history
    /\ last_write' =
          IF stored
          THEN RecordWrite(last_write, sid, date, total, cash, holdings)
          ELSE last_write

(***************************************************************************)
(* The access guard.                                                       *)
(***************************************************************************)
\* _check_sandbox_access on one state of the two tables: owner_id = 0 is (None, None)
NoAccess == [owner_id |-> 0, permission |-> ""]

ShareRows(shares, sid, uid) ==
    {sh \in shares : sh.sandbox_id = sid /\ sh.shared_with_id = uid}

\* a faulty variant: any share row grants whatever is required
FaultyShareAccess(owner, share_permission, required) ==
    [owner_id |-> owner, permission |-> share_permission]

\* the second half of _check_sandbox_access: the share row against the
\* required permission
ShareAccess(owner, share_permission, required) ==
    IF required = "edit" /\ share_permission # "edit"
    THEN NoAccess
    ELSE [owner_id |-> owner, permission |-> share_permission]

(***************************************************************************)
(* The price cache.                                                        *)
(***************************************************************************)
\* a faulty variant: an entry still counts at the very end of its life
FaultyFresh(cache, t, sym) == cache[sym].present /\ t <= cache[sym].expiry

\* "if cache_key in _CACHE: val, expiry = _CACHE[cache_key]; if now < expiry"
Fresh(cache, t, sym) == cache[sym].present /\ t < cache[sym].expiry

\* a variant that prices a symbol at 1 when the provider has no price for it
FaultyGetCurrentPrice(cache, t, at, sym, outcome) ==
    IF outcome # 0
    THEN [price |-> outcome,
          cache |-> [cache EXCEPT ![sym] =
                        [present |-> TRUE, val |-> outcome, expiry |-> t + PRICE_TTL,
                         written |-> at]]]
    ELSE [price |-> 1, cache |-> cache]

\* _get_current_price(symbol) from its provider call on, which it reaches
\* when the cache held no fresh entry at t, the clock it read on entry.
\* outcome is what the provider answers: a price, or 0 for no price (None,
\* 0, or an exception).  cache is _CACHE as it is when the provider has
\* answered, at the clock at; the entry expires at t + 300 and is written at at.
GetCurrentPrice(cache, t, at, sym, outcome) ==
    IF outcome # 0
    THEN [price |-> outcome,
          cache |-> [cache EXCEPT ![sym] =
                        [present |-> TRUE, val |-> outcome, expiry |-> t + PRICE_TTL,
                         written |-> at]]]
    ELSE [price |-> 0, cache |-> cache]

\* what the provider can answer for one symbol of a batch: a price, 0 for a
\* last price that is missing, -1 for an exception
ProviderOutcomes == Prices \cup {0, -1}

\* the positions at which the caller of _get_current_prices goes on to
\* _record_equity_snapshot with no snapshot_date
SnapshotPositions == {"snapshot", "pf_snapshot", "sa_snapshot"}

\* _get_current_prices returns at the clock t and its caller goes on at resume
\* up to its next statement; where that is the INSERT of
\* _record_equity_snapshot, datetime.date.today() has been read before it
Resume(pr, resume, t) ==
    [pr EXCEPT !.pc = resume, !.resume = "", !.symbols = <<>>, !.looked_at = 0,
               !.snapshot_date = IF resume \in SnapshotPositions THEN Today(t) ELSE 0]

\* _get_current_prices(symbols) up to its first provider call: the cache is
\* read at t for every symbol; with nothing missing the handler goes on at
\* resume.  fail: yf.Tickers itself raises, and every missing symbol is
\* priced 0.0 without being cached.  Otherwise the thread waits for the last
\* price of the first missing symbol.
GetCurrentPrices(pr, cache, t, syms, fail, resume) ==
    LET Missing(s) == ~Fresh(cache, t, s)
        missing == SelectSeq(syms, Missing)
        asked == {missing[i] : i \in DOMAIN missing}
        hit == {syms[i] : i \in DOMAIN syms} \ asked
    IN  IF missing = <<>>
        THEN Resume([pr EXCEPT !.failed = {},
                               !.prices = [s \in hit |-> cache[s].val]], resume, t)
        ELSE IF fail
        THEN Resume([pr EXCEPT !.failed = asked,
                               !.prices = [s \in hit \cup asked |->
                                              IF s \in hit THEN cache[s].val ELSE 0]],
                    resume, t)
        ELSE [pr EXCEPT !.pc = "fetch", !.failed = {}, !.missing = missing,
                        !.looked_at = t, !.resume = resume,
                        !.prices = [s \in hit |-> cache[s].val]]

\* prices.get(sym, default)
DictGet(prices, sym, default) == IF sym \in DOMAIN prices THEN prices[sym] ELSE default

(***************************************************************************)
(* The arithmetic of a trade.                                              *)
(***************************************************************************)
\* quantity = amount / price when the body gives an amount and no quantity.
\* The amounts and prices of the model divide exactly.
ResolveQuantity(quantity, amount, price) ==
    IF amount > 0 /\ quantity <= 0 THEN amount \div price ELSE quantity

\* a faulty variant: the comparison allows a shortfall of one cash unit
FaultyInsufficientFunds(current_balance, total_cost) == current_balance + 1 < total_cost

\* _execute_buy: current_balance < total_cost
InsufficientFunds(current_balance, total_cost) == current_balance < total_cost

\* a faulty variant: the comparison allows a shortfall of one quantity unit
FaultyInsufficientShares(owned_qty, quantity) == owned_qty + 1 < quantity

\* _execute_sell: owned_qty < quantity
InsufficientShares(owned_qty, quantity) == owned_qty < quantity

\* _execute_buy: new_balance = current_balance - total_cost
BuyBalance(current_balance, total_cost) == current_balance - total_cost

\* _execute_sell: new_balance = current_balance + total_cost
SellBalance(current_balance, total_cost) == current_balance + total_cost

\* a faulty variant: the plain mean of the old average and the new price
FaultyNewAverage(old_qty, old_avg, quantity, price) ==
    Frac(old_avg[1] + price * old_avg[2], 2 * old_avg[2])

\* _execute_buy: ((old_qty * old_avg) + (quantity * price)) / new_qty
NewAverage(old_qty, old_avg, quantity, price) ==
    Frac(old_qty * old_avg[1] + quantity * price * old_avg[2],
         old_avg[2] * (old_qty + quantity))

\* _execute_sell: new_qty <= 0.000001
IsDust(new_qty) == new_qty * MicroPerShare <= QtyDenom

(***************************************************************************)
(* Requests.                                                               *)
(***************************************************************************)
\* the handlers that read a sandbox
Views == {"portfolio", "transactions"}

\* the locals of _get_equity_history and _seed_equity_history
NoSeed == [called_at |-> 0, raised |-> FALSE, empty |-> TRUE, column |-> <<>>, day |-> 0,
           end_date |-> 0, current_cash |-> 0, current_holdings |-> <<>>,
           equity_holdings |-> 0, total_equity |-> 0, history |-> <<>>]

\* the body of a 200 response of get_portfolio, get_transactions,
\* get_sandboxes or snapshot_all_sandboxes
NoResponse ==
    [portfolio |-> <<>>, cash_balance |-> 0, initial_balance |-> 0,
     total_equity |-> Exact(0), holdings_value |-> Exact(0), equity_history |-> <<>>,
     history_error |-> FALSE, transactions |-> <<>>, sandboxes |-> <<>>, count |-> 0]

IdleProc ==
    [pc |-> "idle", handler |-> "", caller |-> 0, sandbox_id |-> 0,
     symbol |-> "", type |-> "", quantity |-> 0, amount |-> 0,
     sandbox_owner |-> 0, owner_id |-> 0, permission |-> "",
     price |-> 0, total_cost |-> 0, current_balance |-> 0, new_balance |-> 0,
     existing |-> NoLot, items |-> <<>>, result |-> "", failed_at |-> "",
     txs |-> <<>>, created_at |-> 0, seed |-> NoSeed, history |-> <<>>,
     error_msg |-> FALSE, response |-> NoResponse,
     todo |-> <<>>, prices |-> <<>>, failed |-> {}, holdings |-> 0,
     missing |-> <<>>, looked_at |-> 0, resume |-> "", symbols |-> <<>>,
     snapshot_date |-> 0, executed_at |-> 0,
     friend_id |-> 0, share_id |-> 0, body_permission |-> ""]

\* the required_permission each handler passes to _check_sandbox_access
RequiredPermission(handler) == IF handler = "trade" THEN "edit" ELSE "watch"

\* the handler returns
Done(pr, result) == [pr EXCEPT !.pc = "done", !.result = result]

\* "if not owner_id: return ... 404" of each handler
Denied(pr) == Done(pr, "not_found")

\* the handler goes on with (owner_id, permission): trade_stock to its body
\* and the price, get_portfolio and get_transactions to their first SELECT
Granted(pr, access) ==
    [pr EXCEPT !.owner_id = access.owner_id, !.permission = access.permission,
               !.pc = IF pr.handler = "trade" THEN "price"
                      ELSE IF pr.handler = "portfolio" THEN "pf_items"
                      ELSE "tx_rows"]

\* a faulty variant: the handler goes on whatever the guard returned
FaultyAfterAccess(pr, access) == Granted(pr, access)

\* "owner_id, permission = _check_sandbox_access(...)" and the handler's test
\* of owner_id
AfterAccess(pr, access) ==
    IF access.owner_id = 0 THEN Denied(pr) ELSE Granted(pr, access)

OthersIdle(p) == \A q \in Procs \ {p} : proc[q].pc = "idle"

\* POST /api/sandbox/<id>/trade arrives, from one of callers for one of sids
BeginTrade(p, callers, sids, max) ==
    /\ proc[p].pc = "idle"
    /\ started < max
    /\ \E caller \in callers, sid \in sids :
          proc' = [proc EXCEPT ![p] =
                      [IdleProc EXCEPT !.pc = "access", !.handler = "trade",
                                       !.caller = caller, !.sandbox_id = sid]]
    /\ started' = started + 1
    /\ base' = IF OthersIdle(p) THEN Store ELSE base
    /\ earlier' = IF OthersIdle(p) THEN Ledger(base) ELSE earlier
    /\ UNCHANGED <<sandboxes, sandbox_shares, portfolio, transactions,
                   equity_history, price_cache, eq_cache, now, ticks, last_write, seeded, sequences>>

\* the same, with no other request in flight
BeginTradeAlone(p, callers, sids, max) == OthersIdle(p) /\ BeginTrade(p, callers, sids, max)

\* GET /api/sandbox/<id>/portfolio or GET /api/sandbox/<id>/transactions
\* arrives, with no other request in flight
BeginViewAlone(p, callers, sids, max) ==
    /\ OthersIdle(p)
    /\ proc[p].pc = "idle"
    /\ started < max
    /\ \E handler \in Views, caller \in callers, sid \in sids :
          proc' = [proc EXCEPT ![p] =
                      [IdleProc EXCEPT !.pc = "access", !.handler = handler,
                                       !.caller = caller, !.sandbox_id = sid]]
    /\ started' = started + 1
    /\ base' = Store
    /\ earlier' = Ledger(base)
    /\ UNCHANGED <<sandboxes, sandbox_shares, portfolio, transactions,
                   equity_history, price_cache, eq_cache, now, ticks, last_write, seeded, sequences>>

\* _check_sandbox_access: SELECT id, user_id FROM sandboxes WHERE id = %s
AccessSandbox(p) ==
    /\ proc[p].pc = "access"
    /\ LET pr == proc[p]
           sb == sandboxes[pr.sandbox_id]
       IN  proc' = [proc EXCEPT ![p] =
                IF ~sb.exists THEN AfterAccess(pr, NoAccess)
                ELSE IF sb.user_id = pr.caller
                THEN AfterAccess(pr, [owner_id |-> sb.user_id, permission |-> "owner"])
                ELSE [pr EXCEPT !.pc = "access_share", !.sandbox_owner = sb.user_id]]
    /\ UNCHANGED <<sandboxes, sandbox_shares, portfolio, transactions,
                   equity_history, price_cache, eq_cache, now, started, ticks,
                   base, earlier, last_write, seeded, sequences>>

\* _check_sandbox_access: SELECT permission FROM sandbox_shares WHERE ...
AccessShare(p) ==
    /\ proc[p].pc = "access_share"
    /\ LET pr == proc[p]
           rows == ShareRows(sandbox_shares, pr.sandbox_id, pr.caller)
       IN  IF rows = {}
           THEN proc' = [proc EXCEPT ![p] = AfterAccess(pr, NoAccess)]
           ELSE \E sh \in rows :
                   proc' = [proc EXCEPT ![p] =
                       AfterAccess(pr, ShareAccess(pr.sandbox_owner, sh.permission,
                                                   RequiredPermission(pr.handler)))]
    /\ UNCHANGED <<sandboxes, sandbox_shares, portfolio, transactions,
                   equity_history, price_cache, eq_cache, now, started, ticks,
                   base, earlier, last_write, seeded, sequences>>

\* trade_stock from "if not price" to total_cost: the quantity is resolved
\* and checked
AfterPrice(pr, price) ==
    LET quantity == ResolveQuantity(pr.quantity, pr.amount, price)
    IN  IF price = 0 THEN Done(pr, "no_price")
        ELSE IF quantity <= 0 THEN Done([pr EXCEPT !.price = price], "invalid_quantity")
        ELSE [pr EXCEPT !.pc = "sandbox", !.price = price, !.quantity = quantity,
                        !.total_cost = price * quantity]

\* trade_stock, from the body to the cache of _get_current_price: the body
\* is read and a missing symbol or an unknown type rejected; a fresh cached
\* price is taken, otherwise the thread goes to the provider
TradePrice(p) ==
    /\ proc[p].pc = "price"
    /\ \E sym \in BodySymbols, type \in BodyTypes, qa \in BodyQuantities :
          LET pr == [proc[p] EXCEPT !.symbol = sym, !.type = type,
                                    !.quantity = qa[1], !.amount = qa[2]]
              valid == sym # "" /\ type \in {"BUY", "SELL"}
          IN  proc' = [proc EXCEPT ![p] =
                    IF ~valid THEN Done(pr, "invalid_parameters")
                    ELSE IF Fresh(price_cache, now, sym)
                    THEN AfterPrice(pr, price_cache[sym].val)
                    ELSE [pr EXCEPT !.pc = "price_fetch", !.looked_at = now]]
    /\ UNCHANGED <<sandboxes, sandbox_shares, portfolio, transactions,
                   equity_history, price_cache, eq_cache, now, started, ticks,
                   base, earlier, last_write, seeded, sequences>>

\* _get_current_price: the provider answers, a price it gave is cached, and
\* trade_stock goes on with it
TradeFetch(p) ==
    /\ proc[p].pc = "price_fetch"
    /\ \E outcome \in Prices \cup {0} :
          LET pr == proc[p]
              got == GetCurrentPrice(price_cache, pr.looked_at, now, pr.symbol, outcome)
          IN  /\ price_cache' = got.cache
              /\ proc' = [proc EXCEPT ![p] = AfterPrice([pr EXCEPT !.looked_at = 0], got.price)]
    /\ UNCHANGED <<sandboxes, sandbox_shares, portfolio, transactions,
                   equity_history, eq_cache, now, started, ticks, base, earlier,
                   last_write, seeded, sequences>>

\* _get_current_prices: the provider answers for the symbol waited for.  A
\* price is returned and cached; an exception is returned and cached as
\* 0.0; a missing last price is neither.  The thread then waits for the next
\* missing symbol, or the handler goes on.
FetchPrice(p) ==
    /\ proc[p].pc = "fetch"
    /\ \E outcome \in ProviderOutcomes :
          LET pr == proc[p]
              sym == Head(pr.missing)
              rest == Tail(pr.missing)
              val == IF outcome > 0 THEN outcome ELSE 0
              q == [pr EXCEPT !.missing = rest,
                              !.prices = IF outcome = 0 THEN @
                                         ELSE [s \in DOMAIN @ \cup {sym} |->
                                                  IF s = sym THEN val ELSE @[s]],
                              !.failed = IF outcome = -1 THEN @ \cup {sym} ELSE @]
          IN  /\ price_cache' =
                    IF outcome = 0 THEN price_cache
                    ELSE [price_cache EXCEPT ![sym] =
                             [present |-> TRUE, val |-> val,
                              expiry |-> pr.looked_at + PRICE_TTL,
                              written |-> now]]
              /\ proc' = [proc EXCEPT ![p] =
                    IF rest # <<>> THEN q
                    ELSE Resume(q, pr.resume, now)]
    /\ UNCHANGED <<sandboxes, sandbox_shares, portfolio, transactions,
                   equity_history, eq_cache, now, started, ticks, base, earlier,
                   last_write, seeded, sequences>>

\* a handler whose SELECT has returned calls _get_current_prices(symbols):
\* the clock is read, the cache is looked up for every symbol and, with a
\* symbol missing, the provider is called
CurrentPrices(p) ==
    /\ proc[p].pc = "prices"
    /\ \E fail \in BOOLEAN :
          proc' = [proc EXCEPT ![p] =
                      GetCurrentPrices(proc[p], price_cache, now, proc[p].symbols, fail,
                                       proc[p].resume)]
    /\ UNCHANGED <<sandboxes, sandbox_shares, portfolio, transactions,
                   equity_history, price_cache, eq_cache, now, started, ticks,
                   base, earlier, last_write, seeded, sequences>>

\* the handler goes from a SELECT to _get_current_prices(symbols) and is to go
\* on at resume when the prices are back
Lookup(pr, symbols, resume) ==
    [pr EXCEPT !.pc = "prices", !.symbols = symbols, !.resume = resume]

\* trade_stock: SELECT * FROM sandboxes ..., then the first check of
\* _execute_buy (a SELL goes on to read its lot)
TradeSandbox(p) ==
    /\ proc[p].pc = "sandbox"
    /\ LET pr == proc[p]
           sb == SelectSandbox(sandboxes, pr.sandbox_id, pr.owner_id)
           q == [pr EXCEPT !.current_balance = sb.balance]
       IN  proc' = [proc EXCEPT ![p] =
                IF ~sb.exists THEN Done(pr, "sandbox_not_found")
                ELSE IF pr.type = "SELL" THEN [q EXCEPT !.pc = "sell_select"]
                ELSE IF InsufficientFunds(sb.balance, pr.total_cost)
                THEN Done(q, "insufficient_funds")
                ELSE [q EXCEPT !.pc = "buy_cash",
                               !.new_balance = BuyBalance(sb.balance, pr.total_cost)]]
    /\ UNCHANGED <<sandboxes, sandbox_shares, portfolio, transactions,
                   equity_history, price_cache, eq_cache, now, started, ticks,
                   base, earlier, last_write, seeded, sequences>>

\* _execute_buy: UPDATE sandboxes SET balance = new_balance
BuyCash(p) ==
    /\ proc[p].pc = "buy_cash"
    /\ LET pr == proc[p]
       IN  sandboxes' = UpdateBalance(sandboxes, pr.sandbox_id, pr.owner_id, pr.new_balance)
    /\ proc' = [proc EXCEPT ![p].pc = "buy_select"]
    /\ UNCHANGED <<sandbox_shares, portfolio, transactions, equity_history,
                   price_cache, eq_cache, now, started, ticks, base, earlier,
                   last_write, seeded, sequences>>

\* _execute_buy: existing = SELECT quantity, average_buy_price FROM sandbox_portfolio
BuySelect(p) ==
    /\ proc[p].pc = "buy_select"
    /\ LET pr == proc[p]
       IN  \E row \in SelectLot(portfolio, pr.sandbox_id, pr.symbol, pr.owner_id) :
              proc' = [proc EXCEPT ![p].pc = "buy_lot", ![p].existing = row]
    /\ UNCHANGED <<sandboxes, sandbox_shares, portfolio, transactions,
                   equity_history, price_cache, eq_cache, now, started, ticks,
                   base, earlier, last_write, seeded, sequences>>

\* _execute_buy: UPDATE the lot to the weighted average, or INSERT a new lot
BuyLot(p) ==
    /\ proc[p].pc = "buy_lot"
    /\ LET pr == proc[p]
           old == pr.existing
       IN  portfolio' =
               IF old.found
               THEN UpdateLot(portfolio, pr.sandbox_id, pr.symbol, pr.owner_id,
                              old.quantity + pr.quantity,
                              NewAverage(old.quantity, old.average_buy_price,
                                         pr.quantity, pr.price))
               ELSE InsertLot(portfolio, pr.sandbox_id, pr.owner_id, pr.symbol,
                              pr.quantity, pr.price)
    /\ proc' = [proc EXCEPT ![p].pc = "record"]
    /\ UNCHANGED <<sandboxes, sandbox_shares, transactions, equity_history,
                   price_cache, eq_cache, now, started, ticks, base, earlier,
                   last_write, seeded, sequences>>

\* _execute_sell: existing = SELECT quantity FROM sandbox_portfolio, the check
\* of the owned quantity
SellSelect(p) ==
    /\ proc[p].pc = "sell_select"
    /\ LET pr == proc[p]
       IN  \E row \in SelectLot(portfolio, pr.sandbox_id, pr.symbol, pr.owner_id) :
              proc' = [proc EXCEPT ![p] =
                  IF InsufficientShares(row.quantity, pr.quantity)
                  THEN Done([pr EXCEPT !.existing = row], "insufficient_shares")
                  ELSE [pr EXCEPT !.pc = "sell_cash", !.existing = row,
                                  !.new_balance = SellBalance(pr.current_balance,
                                                              pr.total_cost)]]
    /\ UNCHANGED <<sandboxes, sandbox_shares, portfolio, transactions,
                   equity_history, price_cache, eq_cache, now, started, ticks,
                   base, earlier, last_write, seeded, sequences>>

\* _execute_sell: UPDATE sandboxes SET balance = new_balance
SellCash(p) ==
    /\ proc[p].pc = "sell_cash"
    /\ LET pr == proc[p]
       IN  sandboxes' = UpdateBalance(sandboxes, pr.sandbox_id, pr.owner_id, pr.new_balance)
    /\ proc' = [proc EXCEPT ![p].pc = "sell_lot"]
    /\ UNCHANGED <<sandbox_shares, portfolio, transactions, equity_history,
                   price_cache, eq_cache, now, started, ticks, base, earlier,
                   last_write, seeded, sequences>>

\* _execute_sell: DELETE the lot when what is left is dust, else UPDATE its quantity
SellLot(p) ==
    /\ proc[p].pc = "sell_lot"
    /\ LET pr == proc[p]
           new_qty == pr.existing.quantity - pr.quantity
       IN  portfolio' =
               IF IsDust(new_qty)
               THEN DeleteLot(portfolio, pr.sandbox_id, pr.symbol, pr.owner_id)
               ELSE UpdateLotQuantity(portfolio, pr.sandbox_id, pr.symbol, pr.owner_id,
                                      new_qty)
    /\ proc' = [proc EXCEPT ![p].pc = "record"]
    /\ UNCHANGED <<sandboxes, sandbox_shares, transactions, equity_history,
                   price_cache, eq_cache, now, started, ticks, base, earlier,
                   last_write, seeded, sequences>>

\* _record_transaction; executed_at is the clock of the store at the INSERT
Record(p) ==
    /\ proc[p].pc = "record"
    /\ LET pr == proc[p]
       IN  transactions' = RecordTransaction(transactions, pr.sandbox_id, pr.symbol,
                                             pr.type, pr.quantity, pr.price,
                                             pr.owner_id, now)
    /\ proc' = [proc EXCEPT ![p].pc = "snapshot_items", ![p].executed_at = now]
    /\ UNCHANGED <<sandboxes, sandbox_shares, portfolio, equity_history,
                   price_cache, eq_cache, now, started, ticks, base, earlier,
                   last_write, seeded, sequences>>

\* symbols = [i["symbol"] for i in items]
SymbolsOf(items) == [i \in Indices(items) |-> items[i].symbol]

\* _snapshot_after_trade: items = SELECT symbol, quantity FROM
\* sandbox_portfolio, and the symbols to price
SnapshotItems(p) ==
    /\ proc[p].pc = "snapshot_items"
    /\ LET pr == proc[p]
           items == SelectItems(portfolio, pr.sandbox_id, pr.owner_id)
       IN  proc' = [proc EXCEPT ![p] =
                       Lookup([pr EXCEPT !.items = items], SymbolsOf(items), "snapshot")]
    /\ UNCHANGED <<sandboxes, sandbox_shares, portfolio, transactions,
                   equity_history, price_cache, eq_cache, now, started, ticks,
                   base, earlier, last_write, seeded, sequences>>

\* the set of them
ItemSymbols(items) == {items[i].symbol : i \in Indices(items)}

\* sum(float(i["quantity"]) * prices.get(i["symbol"], 0) for i in items)
HoldingsValue(items, prices) ==
    SumSeq([i \in Indices(items) |->
               items[i].quantity * DictGet(prices, items[i].symbol, 0)])

\* _snapshot_after_trade: the INSERT of the snapshot computed from the prices
\* returned, for the date read before it.
\* stored: whether the INSERT of _record_equity_snapshot succeeds (its
\* exception is swallowed there).
SnapshotAfterTrade(p, stored) ==
    /\ proc[p].pc = "snapshot"
    /\ LET pr == proc[p]
           holdings == HoldingsValue(pr.items, pr.prices)
           total == pr.new_balance + holdings
       IN  /\ WriteSnapshot(stored, pr.sandbox_id, pr.owner_id,
                            Cents(Round2(total)), Cents(Round2(pr.new_balance)),
                            Cents(Round2(holdings)), pr.snapshot_date)
           /\ proc' = [proc EXCEPT ![p] =
                          [pr EXCEPT !.pc = "snapshot_drop", !.holdings = holdings]]
    /\ UNCHANGED <<sandboxes, sandbox_shares, portfolio, transactions, price_cache,
                   eq_cache, now, started, ticks, base, earlier, seeded, sequences>>

Snapshot(p) == SnapshotAfterTrade(p, TRUE)

\* _snapshot_after_trade: "if cache_key in _CACHE: del _CACHE[cache_key]";
\* the handler then returns ok
SnapshotDrop(p) ==
    /\ proc[p].pc = "snapshot_drop"
    /\ eq_cache' = [eq_cache EXCEPT ![proc[p].sandbox_id] = NoHistory]
    /\ proc' = [proc EXCEPT ![p] = Done(@, "ok")]
    /\ UNCHANGED <<sandboxes, sandbox_shares, portfolio, transactions,
                   equity_history, price_cache, now, started, ticks, base,
                   earlier, last_write, seeded, sequences>>

\* the response has been sent; the thread is free again
Return(p) ==
    /\ proc[p].pc = "done"
    /\ proc' = [proc EXCEPT ![p] = IdleProc]
    /\ UNCHANGED <<sandboxes, sandbox_shares, portfolio, transactions,
                   equity_history, price_cache, eq_cache, now, started, ticks,
                   base, earlier, last_write, seeded, sequences>>

(***************************************************************************)
(* get_transactions and get_portfolio.                                     *)
(***************************************************************************)
\* datetime.isoformat(): a string, not the datetime it was made from
IsoFormat(t) == <<"iso", t>>

\* a row of get_transactions: SELECT *, executed_at AS created_at, both then
\* converted to ISO strings
ViewRow(row) ==
    [sandbox_id |-> row.sandbox_id, user_id |-> row.user_id, symbol |-> row.symbol,
     type |-> row.type, quantity |-> row.quantity, price |-> row.price,
     executed_at |-> IsoFormat(row.executed_at),
     created_at |-> IsoFormat(row.executed_at)]

\* get_transactions: the rows of the owner, latest first
TransactionsRows(p) ==
    /\ proc[p].pc = "tx_rows"
    /\ LET pr == proc[p]
           rows == Reverse(SelectTransactions(transactions, pr.sandbox_id, pr.owner_id))
       IN  proc' = [proc EXCEPT ![p] =
                Done([pr EXCEPT !.response.transactions =
                                    [i \in Indices(rows) |-> ViewRow(rows[i])]], "ok")]
    /\ UNCHANGED <<sandboxes, sandbox_shares, portfolio, transactions,
                   equity_history, price_cache, eq_cache, now, started, ticks,
                   base, earlier, last_write, seeded, sequences>>

\* get_portfolio: portfolio_items = SELECT * FROM sandbox_portfolio
PortfolioItems(p) ==
    /\ proc[p].pc = "pf_items"
    /\ LET pr == proc[p]
       IN  proc' = [proc EXCEPT ![p].pc = "pf_sandbox",
                                ![p].items = SelectItems(portfolio, pr.sandbox_id, pr.owner_id)]
    /\ UNCHANGED <<sandboxes, sandbox_shares, portfolio, transactions,
                   equity_history, price_cache, eq_cache, now, started, ticks,
                   base, earlier, last_write, seeded, sequences>>

\* float(sandbox["initial_balance"]) if sandbox["initial_balance"] else cash_balance
InitialBalance(sb) == IF sb.initial_balance # 0 THEN sb.initial_balance ELSE sb.balance

\* get_portfolio: sandbox = SELECT balance, initial_balance, created_at FROM
\* sandboxes, and the symbols to price
PortfolioSandbox(p) ==
    /\ proc[p].pc = "pf_sandbox"
    /\ LET pr == proc[p]
           sb == SelectSandbox(sandboxes, pr.sandbox_id, pr.owner_id)
       IN  proc' = [proc EXCEPT ![p] =
                IF ~sb.exists THEN Done(pr, "sandbox_not_found")
                ELSE Lookup([pr EXCEPT !.created_at = sb.created_at,
                                       !.response.cash_balance = sb.balance,
                                       !.response.initial_balance = InitialBalance(sb)],
                            SymbolsOf(pr.items), "pf_snapshot")]
    /\ UNCHANGED <<sandboxes, sandbox_shares, portfolio, transactions,
                   equity_history, price_cache, eq_cache, now, started, ticks,
                   base, earlier, last_write, seeded, sequences>>

\* one entry of "portfolio": current_price = prices.get(symbol, avg_price)
PortfolioEntry(item, prices) ==
    LET qty == item.quantity
        avg_price == item.average_buy_price
        current_price == IF item.symbol \in DOMAIN prices
                         THEN Exact(prices[item.symbol]) ELSE avg_price
    IN  [symbol |-> item.symbol, quantity |-> qty, average_buy_price |-> avg_price,
         current_price |-> current_price,
         current_value |-> FMul(current_price, qty),
         gain_loss |-> FMul(FSub(current_price, avg_price), qty),
         gain_loss_percent |->
             IF avg_price[1] > 0
             THEN FMul(FDiv(FSub(current_price, avg_price), avg_price), Percent)
             ELSE Exact(0)]

PortfolioResults(items, prices) == [i \in Indices(items) |-> PortfolioEntry(items[i], prices)]

\* get_portfolio: the INSERT of the snapshot computed from the prices
\* returned, for the date read before it.
\* stored: whether the INSERT of _record_equity_snapshot succeeds.
PortfolioSnapshotStep(p, stored) ==
    /\ proc[p].pc = "pf_snapshot"
    /\ LET pr == proc[p]
           results == PortfolioResults(pr.items, pr.prices)
           holdings_value == FSum([i \in Indices(results) |-> results[i].current_value])
           cash_balance == Exact(pr.response.cash_balance)
           total_equity == FAdd(cash_balance, holdings_value)
       IN  /\ WriteSnapshot(stored, pr.sandbox_id, pr.owner_id,
                            total_equity, cash_balance, holdings_value,
                            pr.snapshot_date)
           /\ proc' = [proc EXCEPT ![p] =
                 [pr EXCEPT !.pc = "pf_txs",
                            !.response.portfolio = results,
                            !.response.holdings_value = holdings_value,
                            !.response.total_equity = total_equity]]
    /\ UNCHANGED <<sandboxes, sandbox_shares, portfolio, transactions, price_cache,
                   eq_cache, now, started, ticks, base, earlier, seeded, sequences>>

PortfolioSnapshot(p) == PortfolioSnapshotStep(p, TRUE)

\* get_portfolio: transactions = SELECT * FROM sandbox_transactions ... ASC
PortfolioTransactions(p) ==
    /\ proc[p].pc = "pf_txs"
    /\ LET pr == proc[p]
       IN  proc' = [proc EXCEPT ![p].pc = "pf_history",
                                ![p].txs = SelectTransactions(transactions, pr.sandbox_id,
                                                              pr.owner_id)]
    /\ UNCHANGED <<sandboxes, sandbox_shares, portfolio, transactions,
                   equity_history, price_cache, eq_cache, now, started, ticks,
                   base, earlier, last_write, seeded, sequences>>

\* a variant in which a failure of the provider fails the request
FaultyRespond(pr, history, error) ==
    Done([pr EXCEPT !.response.equity_history = history,
                    !.response.history_error = error],
         IF pr.failed # {} \/ pr.seed.raised THEN "no_price" ELSE "ok")

\* get_portfolio returns its response with the curve and the advisory
Respond(pr, history, error) ==
    Done([pr EXCEPT !.response.equity_history = history,
                    !.response.history_error = error], "ok")

\* datetime.combine(date, time()).timestamp() * 1000, with the server's
\* clock in UTC
DateMillis(d) == d * DaySeconds * Millis

\* the curve built from the snapshot rows
HistoryOfRows(rows) ==
    [i \in Indices(rows) |->
        [timestamp |-> DateMillis(rows[i].snapshot_date), value |-> rows[i].total_equity]]

\* a column of the price frame after reindex(all_dates).ffill().bfill():
\* a close for every day, or NaN (0) for every day
HistoricalColumns == [Days -> Prices] \cup {[d \in Days |-> 0]}

\* list(set(t['symbol'] for t in transactions))
TransactionSymbols(txs) == {txs[i].symbol : i \in Indices(txs)}

\* start_date of _seed_equity_history
StartDate(created_at, txs) ==
    IF txs # <<>> /\ Today(txs[1].executed_at) < Today(created_at)
    THEN Today(txs[1].executed_at)
    ELSE Today(created_at)

\* _CACHE[cache_key] = (history, now + 900)
CacheHistory(cache, sid, history, called_at) ==
    [cache EXCEPT ![sid] = [present |-> TRUE, val |-> history,
                            expiry |-> called_at + HISTORY_TTL, fallback |-> FALSE]]

\* _get_equity_history, its first lines: the clock is read into now and the
\* cached curve is returned while it is fresh; else the SELECT of the
\* snapshot rows is sent
PortfolioHistory(p) ==
    /\ proc[p].pc = "pf_history"
    /\ LET pr == proc[p]
           entry == eq_cache[pr.sandbox_id]
       IN  IF entry.present /\ now < entry.expiry
           THEN proc' = [proc EXCEPT ![p] = Respond(pr, entry.val, FALSE)]
           ELSE proc' = [proc EXCEPT ![p] =
                            [pr EXCEPT !.pc = "pf_rows",
                                       !.seed = [NoSeed EXCEPT !.called_at = now]]]
    /\ UNCHANGED <<sandboxes, sandbox_shares, portfolio, transactions,
                   equity_history, price_cache, eq_cache, now, started, ticks,
                   base, earlier, last_write, seeded, sequences>>

\* _get_equity_history: rows = SELECT total_equity, snapshot_date FROM
\* sandbox_equity_history.  Two rows or more are the curve; with fewer the
\* handler goes on to _seed_equity_history
HistoryRows(p) ==
    /\ proc[p].pc = "pf_rows"
    /\ LET pr == proc[p]
           rows == SelectHistory(equity_history, pr.sandbox_id)
       IN  proc' = [proc EXCEPT ![p] =
                       IF Len(rows) >= 2
                       THEN [pr EXCEPT !.pc = "pf_cache",
                                       !.history = HistoryOfRows(rows)]
                       ELSE [pr EXCEPT !.pc = "pf_dates"]]
    /\ UNCHANGED <<sandboxes, sandbox_shares, portfolio, transactions,
                   equity_history, price_cache, eq_cache, now, started, ticks,
                   base, earlier, last_write, seeded, sequences>>

\* _seed_equity_history is entered when the SELECT of the rows has returned:
\* start_date, end_date = datetime.date.today(), the symbols of the log, and
\* the history download when the log names a symbol (no download, an empty
\* frame, when it names none)
SeedTimeline(p) ==
    /\ proc[p].pc = "pf_dates"
    /\ LET pr == proc[p]
           symbols == TransactionSymbols(pr.txs)
       IN  proc' = [proc EXCEPT ![p] =
                            [pr EXCEPT !.pc = IF symbols = {} THEN "pf_seed"
                                              ELSE "pf_download",
                                       !.seed = [called_at |-> pr.seed.called_at,
                                                 raised |-> FALSE,
                                                 empty |-> TRUE,
                                                 column |-> [s \in symbols |->
                                                                [d \in Days |-> 0]],
                                                 day |-> StartDate(pr.created_at, pr.txs),
                                                 end_date |-> Today(now),
                                                 current_cash |-> pr.response.initial_balance,
                                                 current_holdings |-> [s \in symbols |-> 0],
                                                 equity_holdings |-> 0,
                                                 total_equity |-> 0,
                                                 history |-> <<>>]]]
    /\ UNCHANGED <<sandboxes, sandbox_shares, portfolio, transactions,
                   equity_history, price_cache, eq_cache, now, started, ticks,
                   base, earlier, last_write, seeded, sequences>>

\* _get_historical_prices returns to _seed_equity_history with what the
\* provider's history holds.  raised: yf.download raises, and the except
\* returns an empty frame
GetHistoricalPrices(p) ==
    /\ proc[p].pc = "pf_download"
    /\ LET pr == proc[p]
           symbols == TransactionSymbols(pr.txs)
       IN  \E raised \in BOOLEAN, empty \in BOOLEAN,
              column \in [symbols -> HistoricalColumns] :
              /\ raised => empty
              /\ empty => \A s \in symbols : \A d \in Days : column[s][d] = 0
              /\ proc' = [proc EXCEPT ![p] =
                            [pr EXCEPT !.pc = "pf_seed",
                                       !.seed.raised = raised,
                                       !.seed.empty = empty,
                                       !.seed.column = column]]
    /\ UNCHANGED <<sandboxes, sandbox_shares, portfolio, transactions,
                   equity_history, price_cache, eq_cache, now, started, ticks,
                   base, earlier, last_write, seeded, sequences>>

\* _get_equity_history, its last lines on the snapshot rows: the curve built
\* from them is cached until now + 900, now being the clock read on entry,
\* and returned
HistoryCache(p) ==
    /\ proc[p].pc = "pf_cache"
    /\ LET pr == proc[p]
       IN  /\ proc' = [proc EXCEPT ![p] = Respond(pr, pr.history, FALSE)]
           /\ eq_cache' = CacheHistory(eq_cache, pr.sandbox_id, pr.history,
                                       pr.seed.called_at)
    /\ UNCHANGED <<sandboxes, sandbox_shares, portfolio, transactions,
                   equity_history, price_cache, now, started, ticks, base,
                   earlier, last_write, seeded, sequences>>

\* a variant of the replay in which a SELL returns no cash
FaultyApplyTransaction(st, t) ==
    LET total_cost == t.quantity * t.price
    IN  IF t.type = "BUY"
        THEN [current_cash |-> st.current_cash - total_cost,
              current_holdings |-> [st.current_holdings EXCEPT ![t.symbol] = @ + t.quantity]]
        ELSE IF t.type = "SELL"
        THEN [current_cash |-> st.current_cash,
              current_holdings |-> [st.current_holdings EXCEPT ![t.symbol] = @ - t.quantity]]
        ELSE st

\* the replay of one logged trade on (current_cash, current_holdings)
ApplyTransaction(st, t) ==
    LET total_cost == t.quantity * t.price
    IN  IF t.type = "BUY"
        THEN [current_cash |-> st.current_cash - total_cost,
              current_holdings |-> [st.current_holdings EXCEPT ![t.symbol] = @ + t.quantity]]
        ELSE IF t.type = "SELL"
        THEN [current_cash |-> st.current_cash + total_cost,
              current_holdings |-> [st.current_holdings EXCEPT ![t.symbol] = @ - t.quantity]]
        ELSE st

RECURSIVE ApplyTransactions(_, _)
ApplyTransactions(st, txs) ==
    IF txs = <<>> THEN st ELSE ApplyTransactions(ApplyTransaction(st, Head(txs)), Tail(txs))

\* tx_by_date[date_obj]
TransactionsOn(txs, d) ==
    LET On(t) == Today(t.executed_at) = d IN SelectSeq(txs, On)

\* a variant valuing the holdings at the cached live price instead of the
\* close of the day
FaultyEquityHoldings(holdings, empty, column, d) ==
    SumOf([s \in DOMAIN holdings |->
              IF holdings[s] > 0 /\ price_cache[s].present
              THEN holdings[s] * price_cache[s].val ELSE 0])

\* equity_holdings of one day: qty * close over the symbols held with a close
EquityHoldings(holdings, empty, column, d) ==
    IF empty THEN 0
    ELSE SumOf([s \in DOMAIN holdings |->
                   IF holdings[s] > 0 /\ column[s][d] # 0
                   THEN holdings[s] * column[s][d] ELSE 0])

\* what a run of _seed_equity_history depends on: its arguments, the price
\* frame and datetime.date.today()
SeedInputs(pr) ==
    [initial_balance |-> pr.response.initial_balance, created_at |-> pr.created_at,
     transactions |-> pr.txs, empty |-> pr.seed.empty, column |-> pr.seed.column,
     today |-> pr.seed.end_date]

\* no run of _seed_equity_history has returned yet
NoSeeded == [ran |-> FALSE, again |-> FALSE, inputs |-> <<>>, history |-> <<>>, rows |-> {}]

\* _seed_equity_history: one day of the loop over all_dates, its snapshot
\* persisted (stored: whether that INSERT succeeds); after the last day the
\* function is about to return its curve
SeedDayStep(p, stored) ==
    /\ proc[p].pc = "pf_seed"
    /\ proc[p].seed.day <= proc[p].seed.end_date
    /\ LET pr == proc[p]
           sd == pr.seed
           sid == pr.sandbox_id
           st == ApplyTransactions([current_cash |-> sd.current_cash,
                                    current_holdings |-> sd.current_holdings],
                                   TransactionsOn(pr.txs, sd.day))
           equity_holdings == EquityHoldings(st.current_holdings, sd.empty, sd.column, sd.day)
           total_equity == st.current_cash + equity_holdings
           history == Append(sd.history, [timestamp |-> DateMillis(sd.day),
                                          value |-> Cents(Round2(total_equity))])
           after == [sd EXCEPT !.day = sd.day + 1,
                               !.current_cash = st.current_cash,
                               !.current_holdings = st.current_holdings,
                               !.equity_holdings = equity_holdings,
                               !.total_equity = total_equity,
                               !.history = history]
       IN  /\ WriteSnapshot(stored, sid, pr.owner_id,
                             Cents(Round2(total_equity)), Cents(Round2(st.current_cash)),
                             Cents(Round2(equity_holdings)), sd.day)
           /\ proc' = [proc EXCEPT ![p] =
                          [pr EXCEPT !.seed = after,
                                     !.history = IF sd.day < sd.end_date THEN pr.history
                                                 ELSE history,
                                     !.pc = IF sd.day < sd.end_date THEN "pf_seed"
                                            ELSE "pf_seeded"]]
    /\ UNCHANGED <<sandboxes, sandbox_shares, portfolio, transactions,
                   price_cache, eq_cache, now, started, ticks, base, earlier,
                   seeded, sequences>>

SeedDay(p) == SeedDayStep(p, TRUE)

\* _seed_equity_history has returned (history, error_msg) to
\* _get_equity_history: "if history:" the curve is cached until now + 900,
\* now being the clock read on entry, and both are returned to get_portfolio
SeedReturn(p) ==
    /\ proc[p].pc = "pf_seeded"
    /\ LET pr == proc[p]
           sid == pr.sandbox_id
       IN  /\ proc' = [proc EXCEPT ![p] = Respond(pr, pr.history, pr.error_msg)]
           /\ eq_cache' = IF pr.history # <<>>
                          THEN [CacheHistory(eq_cache, sid, pr.history, pr.seed.called_at)
                                   EXCEPT ![sid].fallback = pr.error_msg]
                          ELSE eq_cache
           /\ seeded' = IF pr.error_msg THEN seeded
                        ELSE [seeded EXCEPT ![sid] =
                                 [ran |-> TRUE,
                                  again |-> seeded[sid].ran
                                            /\ seeded[sid].inputs = SeedInputs(pr),
                                  inputs |-> SeedInputs(pr),
                                  history |-> pr.history,
                                  rows |-> {r \in equity_history : r.sandbox_id = sid}]]
    /\ UNCHANGED <<sandboxes, sandbox_shares, portfolio, transactions,
                   equity_history, price_cache, now, started, ticks, base,
                   earlier, last_write, sequences>>

(***************************************************************************)
(* get_sandboxes, snapshot_all_sandboxes and delete_sandbox.               *)
(***************************************************************************)
\* the handlers that work on all the sandboxes of their caller
UserHandlers == {"list", "shared", "snapshot_all", "create", "remove_friend"}

\* GET /api/sandboxes, GET /api/sandboxes/shared,
\* POST /api/sandboxes/snapshot-all, POST /api/sandbox or
\* DELETE /api/friends/<id> arrives, with no other request in flight.  The
\* sandboxes of a run are those of SandboxIds: no POST /api/sandbox arrives
\* once their ids are used up.
BeginUserAlone(p, callers, max) ==
    /\ OthersIdle(p)
    /\ proc[p].pc = "idle"
    /\ started < max
    /\ \E handler \in UserHandlers, caller \in callers :
          /\ handler = "create" => sequences.sandboxes \in SandboxIds
          /\ proc' = [proc EXCEPT ![p] =
                      [IdleProc EXCEPT !.pc = IF handler = "list" THEN "ls_sandboxes"
                                              ELSE IF handler = "shared" THEN "shared_rows"
                                              ELSE IF handler = "snapshot_all"
                                              THEN "sa_sandboxes"
                                              ELSE IF handler = "create" THEN "cr_insert"
                                              ELSE "fr_select",
                                       !.handler = handler, !.caller = caller]]
    /\ started' = started + 1
    /\ base' = Store
    /\ earlier' = Ledger(base)
    /\ UNCHANGED <<sandboxes, sandbox_shares, portfolio, transactions, equity_history,
                   price_cache, eq_cache, now, ticks, last_write, seeded, sequences>>

\* DELETE /api/sandbox/<id> arrives, with no other request in flight
BeginDeleteAlone(p, callers, sids, max) ==
    /\ OthersIdle(p)
    /\ proc[p].pc = "idle"
    /\ started < max
    /\ \E caller \in callers, sid \in sids :
          proc' = [proc EXCEPT ![p] =
                      [IdleProc EXCEPT !.pc = "del_select", !.handler = "delete",
                                       !.caller = caller, !.sandbox_id = sid]]
    /\ started' = started + 1
    /\ base' = Store
    /\ earlier' = Ledger(base)
    /\ UNCHANGED <<sandboxes, sandbox_shares, portfolio, transactions, equity_history,
                   price_cache, eq_cache, now, ticks, last_write, seeded, sequences>>

\* get_sandboxes: sandboxes = SELECT * FROM sandboxes WHERE user_id = %s
\* ORDER BY created_at DESC
ListSandboxes(p) ==
    /\ proc[p].pc = "ls_sandboxes"
    /\ LET pr == proc[p]
           rows == Reverse(SelectUserSandboxes(sandboxes, pr.caller))
       IN  proc' = [proc EXCEPT ![p] =
                IF rows = <<>> THEN Done(pr, "ok")
                ELSE [pr EXCEPT !.pc = "ls_items", !.todo = rows]]
    /\ UNCHANGED <<sandboxes, sandbox_shares, portfolio, transactions, equity_history,
                   price_cache, eq_cache, now, started, ticks, base, earlier, last_write, seeded, sequences>>

\* list(all_symbols) of a set: its elements once each, in some order
Listings(S) == {q \in [1..Cardinality(S) -> S] : \A s \in S : \E i \in DOMAIN q : q[i] = s}

\* get_sandboxes: all_portfolio_items = SELECT * FROM sandbox_portfolio
\* WHERE user_id = %s, and list(all_symbols)
ListItems(p) ==
    /\ proc[p].pc = "ls_items"
    /\ LET pr == proc[p]
           items == SelectUserItems(portfolio, pr.caller)
       IN  \E syms \in Listings(ItemSymbols(items)) :
              proc' = [proc EXCEPT ![p] =
                          Lookup([pr EXCEPT !.items = items], syms, "ls_shares")]
    /\ UNCHANGED <<sandboxes, sandbox_shares, portfolio, transactions, equity_history,
                   price_cache, eq_cache, now, started, ticks, base, earlier,
                   last_write, seeded, sequences>>

\* float(s.get("initial_balance")) if s.get("initial_balance") else 10000.0
DefaultInitialBalance == 10000 * CashDenom

ListInitial(row) ==
    IF row.initial_balance # 0 THEN row.initial_balance ELSE DefaultInitialBalance

\* holdings_value of one sandbox: price * qty over its items, where
\* price = prices.get(sym, float(item["average_buy_price"]))
ListHoldings(items, sid, prices) ==
    FSum([i \in Indices(items) |->
             IF items[i].sandbox_id # sid THEN Exact(0)
             ELSE FMul(IF items[i].symbol \in DOMAIN prices
                       THEN Exact(prices[items[i].symbol])
                       ELSE items[i].average_buy_price,
                       items[i].quantity)])

\* get_sandboxes: one turn of the loop over the sandboxes, with its
\* SELECT COUNT(*) FROM sandbox_shares; after the last one the list is returned
ListShares(p) ==
    /\ proc[p].pc = "ls_shares"
    /\ LET pr == proc[p]
           row == Head(pr.todo)
           holdings_value == ListHoldings(pr.items, row.id, pr.prices)
           entry == [id |-> row.id, balance |-> row.balance,
                     initial_balance |-> ListInitial(row),
                     total_equity |-> FAdd(Exact(row.balance), holdings_value),
                     created_at |-> IsoFormat(row.created_at),
                     share_count |-> CountShares(sandbox_shares, row.id)]
           q == [pr EXCEPT !.todo = Tail(pr.todo),
                           !.response.sandboxes = Append(pr.response.sandboxes, entry)]
       IN  proc' = [proc EXCEPT ![p] = IF q.todo = <<>> THEN Done(q, "ok") ELSE q]
    /\ UNCHANGED <<sandboxes, sandbox_shares, portfolio, transactions, equity_history,
                   price_cache, eq_cache, now, started, ticks, base, earlier, last_write, seeded, sequences>>

\* the rows of SELECT ... FROM sandbox_shares ss JOIN sandboxes s ON
\* s.id = ss.sandbox_id ... ORDER BY ss.created_at DESC for the given share
\* rows: the latest share first (share ids are handed out in the order of
\* creation)
RECURSIVE SharedRows(_, _)
SharedRows(sbs, shares) ==
    IF shares = {} THEN <<>>
    ELSE LET sh == CHOOSE x \in shares : \A y \in shares : y.id <= x.id
         IN  <<[id |-> sh.sandbox_id, balance |-> sbs[sh.sandbox_id].balance,
                initial_balance |-> sbs[sh.sandbox_id].initial_balance,
                created_at |-> sbs[sh.sandbox_id].created_at,
                permission |-> sh.permission, share_id |-> sh.id,
                owner_id |-> sh.owner_id]>>
             \o SharedRows(sbs, shares \ {sh})

\* get_shared_sandboxes: rows = the shares WHERE ss.shared_with_id = %s
\* joined with their sandboxes; "if not rows" the empty list is returned
SharedSandboxes(p) ==
    /\ proc[p].pc = "shared_rows"
    /\ LET pr == proc[p]
           rows == SharedRows(sandboxes,
                              {sh \in sandbox_shares :
                                  /\ sh.shared_with_id = pr.caller
                                  /\ sh.sandbox_id \in DOMAIN sandboxes
                                  /\ sandboxes[sh.sandbox_id].exists})
       IN  proc' = [proc EXCEPT ![p] =
                IF rows = <<>> THEN Done(pr, "ok")
                ELSE [pr EXCEPT !.pc = "shared_items", !.todo = rows]]
    /\ UNCHANGED <<sandboxes, sandbox_shares, portfolio, transactions, equity_history,
                   price_cache, eq_cache, now, started, ticks, base, earlier,
                   last_write, seeded, sequences>>

\* get_shared_sandboxes: all_portfolio = SELECT ... FROM sandbox_portfolio
\* WHERE sandbox_id = ANY(sandbox_ids), and list(all_symbols)
SharedItems(p) ==
    /\ proc[p].pc = "shared_items"
    /\ LET pr == proc[p]
           sandbox_ids == {pr.todo[i].id : i \in Indices(pr.todo)}
           Theirs(row) == row.sandbox_id \in sandbox_ids
           all_portfolio == SelectSeq(portfolio, Theirs)
       IN  \E syms \in Listings(ItemSymbols(all_portfolio)) :
              proc' = [proc EXCEPT ![p] =
                          Lookup([pr EXCEPT !.items = all_portfolio], syms,
                                 "shared_results")]
    /\ UNCHANGED <<sandboxes, sandbox_shares, portfolio, transactions, equity_history,
                   price_cache, eq_cache, now, started, ticks, base, earlier,
                   last_write, seeded, sequences>>

\* get_shared_sandboxes: the loop over the rows, which builds the list that
\* is returned
SharedResults(p) ==
    /\ proc[p].pc = "shared_results"
    /\ LET pr == proc[p]
           results ==
               [i \in Indices(pr.todo) |->
                   LET r == pr.todo[i]
                   IN  [id |-> r.id, balance |-> r.balance,
                        initial_balance |-> ListInitial(r),
                        total_equity |-> FAdd(Exact(r.balance),
                                              ListHoldings(pr.items, r.id, pr.prices)),
                        created_at |-> IsoFormat(r.created_at),
                        permission |-> r.permission, share_id |-> r.share_id,
                        owner_id |-> r.owner_id]]
       IN  proc' = [proc EXCEPT ![p] =
                       Done([pr EXCEPT !.todo = <<>>, !.response.sandboxes = results],
                            "ok")]
    /\ UNCHANGED <<sandboxes, sandbox_shares, portfolio, transactions, equity_history,
                   price_cache, eq_cache, now, started, ticks, base, earlier,
                   last_write, seeded, sequences>>

\* snapshot_all_sandboxes: sandboxes = SELECT id, balance, initial_balance
\* FROM sandboxes WHERE user_id = %s
SnapshotAllSandboxes(p) ==
    /\ proc[p].pc = "sa_sandboxes"
    /\ LET pr == proc[p]
           rows == SelectUserSandboxes(sandboxes, pr.caller)
       IN  proc' = [proc EXCEPT ![p] =
                IF rows = <<>> THEN Done(pr, "ok")
                ELSE [pr EXCEPT !.pc = "sa_items", !.todo = rows]]
    /\ UNCHANGED <<sandboxes, sandbox_shares, portfolio, transactions, equity_history,
                   price_cache, eq_cache, now, started, ticks, base, earlier, last_write, seeded, sequences>>

\* snapshot_all_sandboxes: items = SELECT symbol, quantity FROM sandbox_portfolio
\* of the sandbox whose turn it is, and the symbols to price
SnapshotAllItems(p) ==
    /\ proc[p].pc = "sa_items"
    /\ LET pr == proc[p]
           items == SelectItems(portfolio, Head(pr.todo).id, pr.caller)
       IN  proc' = [proc EXCEPT ![p] =
                       Lookup([pr EXCEPT !.items = items], SymbolsOf(items), "sa_snapshot")]
    /\ UNCHANGED <<sandboxes, sandbox_shares, portfolio, transactions, equity_history,
                   price_cache, eq_cache, now, started, ticks, base, earlier, last_write, seeded, sequences>>

\* snapshot_all_sandboxes: the INSERT of the snapshot of the sandbox whose
\* turn it is, for the date read before it; after the last one the count is
\* returned.
\* stored: whether the INSERT of _record_equity_snapshot succeeds.
SnapshotAllStep(p, stored) ==
    /\ proc[p].pc = "sa_snapshot"
    /\ LET pr == proc[p]
           row == Head(pr.todo)
           holdings == HoldingsValue(pr.items, pr.prices)
           total == row.balance + holdings
           q == [pr EXCEPT !.todo = Tail(pr.todo), !.pc = "sa_items",
                           !.response.count = pr.response.count + 1]
       IN  /\ WriteSnapshot(stored, row.id, pr.caller, Cents(Round2(total)),
                            Cents(Round2(row.balance)), Cents(Round2(holdings)),
                            pr.snapshot_date)
           /\ proc' = [proc EXCEPT ![p] = IF q.todo = <<>> THEN Done(q, "ok") ELSE q]
    /\ UNCHANGED <<sandboxes, sandbox_shares, portfolio, transactions, price_cache,
                   eq_cache, now, started, ticks, base, earlier, seeded, sequences>>

SnapshotAll(p) == SnapshotAllStep(p, TRUE)

\* delete_sandbox: s = SELECT id FROM sandboxes WHERE id = %s AND user_id = %s
DeleteSelect(p) ==
    /\ proc[p].pc = "del_select"
    /\ LET pr == proc[p]
           sb == SelectSandbox(sandboxes, pr.sandbox_id, pr.caller)
       IN  proc' = [proc EXCEPT ![p] =
                IF ~sb.exists THEN Done(pr, "not_found")
                ELSE [pr EXCEPT !.pc = "del_transactions"]]
    /\ UNCHANGED <<sandboxes, sandbox_shares, portfolio, transactions, equity_history,
                   price_cache, eq_cache, now, started, ticks, base, earlier, last_write, seeded, sequences>>

\* delete_sandbox: DELETE FROM sandbox_transactions
DeleteTransactions(p) ==
    /\ proc[p].pc = "del_transactions"
    /\ transactions' = DeleteRowsOf(transactions, proc[p].sandbox_id, proc[p].caller)
    /\ proc' = [proc EXCEPT ![p].pc = "del_portfolio"]
    /\ UNCHANGED <<sandboxes, sandbox_shares, portfolio, equity_history,
                   price_cache, eq_cache, now, started, ticks, base, earlier, last_write, seeded, sequences>>

\* delete_sandbox: DELETE FROM sandbox_portfolio
DeletePortfolio(p) ==
    /\ proc[p].pc = "del_portfolio"
    /\ portfolio' = DeleteRowsOf(portfolio, proc[p].sandbox_id, proc[p].caller)
    /\ proc' = [proc EXCEPT ![p].pc = "del_sandbox"]
    /\ UNCHANGED <<sandboxes, sandbox_shares, transactions, equity_history,
                   price_cache, eq_cache, now, started, ticks, base, earlier, last_write, seeded, sequences>>

\* delete_sandbox: DELETE FROM sandboxes; the handler answers ok
DeleteSandbox(p) ==
    /\ proc[p].pc = "del_sandbox"
    /\ sandboxes' = DeleteSandboxRow(sandboxes, proc[p].sandbox_id, proc[p].caller)
    /\ proc' = [proc EXCEPT ![p] = Done(@, "ok")]
    /\ UNCHANGED <<sandbox_shares, portfolio, transactions, equity_history,
                   price_cache, eq_cache, now, started, ticks, base, earlier, last_write, seeded, sequences>>

(***************************************************************************)
(* Sharing (src/blueprints/sharing.py), remove_friend                      *)
(* (src/blueprints/friends.py) and create_sandbox.  The table friendships  *)
(* is not part of the state: what a statement reads from it is an input.   *)
(***************************************************************************)
ShareHandlers == {"share", "update_share", "remove_share"}
\* "permission" of a request body; "" is a body without one
BodyPermissions == {"watch", "edit", "EDIT", "admin", ""}
\* the share ids of request paths
ShareIds == 1 .. 3
\* "name" of the body of create_sandbox; "" is a body without one
BodyNames == {"", "n"}
\* "balance" of the body of create_sandbox, in cash units: any number is
\* taken, zero and negative ones too; a body without one is the default
BodyBalances == InitialBalances \cup {0, -4, 10000 * CashDenom}

\* str.lower() of a permission
Lower(s) == IF s = "EDIT" THEN "edit" ELSE s

\* POST /api/sandbox/<id>/share, or PUT or DELETE
\* /api/sandbox/<id>/share/<share_id>, arrives
BeginShare(p, callers, sids, max) ==
    /\ proc[p].pc = "idle"
    /\ started < max
    /\ \E handler \in ShareHandlers, caller \in callers, sid \in sids,
          friend \in Users \cup {0}, share \in ShareIds, perm \in BodyPermissions :
          /\ handler = "share" => share = 1
          /\ handler # "share" => friend = 0
          /\ handler = "remove_share" => perm = ""
          /\ proc' = [proc EXCEPT ![p] =
                      [IdleProc EXCEPT !.pc = "sh_owner", !.handler = handler,
                                       !.caller = caller, !.sandbox_id = sid,
                                       !.friend_id = friend,
                                       !.share_id = IF handler = "share" THEN 0 ELSE share,
                                       !.body_permission = perm]]
    /\ started' = started + 1
    /\ base' = IF OthersIdle(p) THEN Store ELSE base
    /\ earlier' = IF OthersIdle(p) THEN Ledger(base) ELSE earlier
    /\ UNCHANGED <<sandboxes, sandbox_shares, portfolio, transactions,
                   equity_history, price_cache, eq_cache, now, ticks, last_write,
                   seeded, sequences>>

\* the same, with no other request in flight
BeginShareAlone(p, callers, sids, max) == OthersIdle(p) /\ BeginShare(p, callers, sids, max)

\* share_sandbox and update_share: the body is read and a missing friend_id
\* or an unknown permission rejected; then, in all three handlers,
\* _check_sandbox_owner: SELECT id FROM sandboxes WHERE id = %s AND user_id = %s
ShareOwner(p) ==
    /\ proc[p].pc = "sh_owner"
    /\ LET pr == proc[p]
           permission == Lower(IF pr.handler = "share" /\ pr.body_permission = ""
                               THEN "watch" ELSE pr.body_permission)
           q == [pr EXCEPT !.permission = permission]
       IN  proc' = [proc EXCEPT ![p] =
                IF pr.handler = "share" /\ pr.friend_id = 0
                THEN Done(pr, "invalid_parameters")
                ELSE IF pr.handler # "remove_share" /\ permission \notin {"watch", "edit"}
                THEN Done(pr, "invalid_parameters")
                ELSE IF ~SelectSandbox(sandboxes, pr.sandbox_id, pr.caller).exists
                THEN Done(q, "not_found")
                ELSE [q EXCEPT !.pc = IF pr.handler = "share" THEN "sh_friend"
                                      ELSE "sh_select"]]
    /\ UNCHANGED <<sandboxes, sandbox_shares, portfolio, transactions,
                   equity_history, price_cache, eq_cache, now, started, ticks,
                   base, earlier, last_write, seeded, sequences>>

\* share_sandbox: _check_friendship, a SELECT on friendships.  accepted:
\* whether it finds an accepted friendship of the two users; nobody is a
\* friend of themselves (send_friend_request refuses it).
ShareFriend(p) ==
    /\ proc[p].pc = "sh_friend"
    /\ \E accepted \in BOOLEAN :
          /\ accepted => proc[p].friend_id # proc[p].caller
          /\ proc' = [proc EXCEPT ![p] =
                IF accepted THEN [@ EXCEPT !.pc = "sh_existing"]
                ELSE Done(@, "not_friends")]
    /\ UNCHANGED <<sandboxes, sandbox_shares, portfolio, transactions,
                   equity_history, price_cache, eq_cache, now, started, ticks,
                   base, earlier, last_write, seeded, sequences>>

\* share_sandbox: existing = SELECT id FROM sandbox_shares WHERE
\* sandbox_id = %s AND shared_with_id = %s (fetchone: any one of the rows)
ShareExisting(p) ==
    /\ proc[p].pc = "sh_existing"
    /\ LET pr == proc[p]
           rows == ShareRows(sandbox_shares, pr.sandbox_id, pr.friend_id)
       IN  IF rows = {}
           THEN proc' = [proc EXCEPT ![p].pc = "sh_insert"]
           ELSE \E sh \in rows :
                   proc' = [proc EXCEPT ![p].pc = "sh_update", ![p].share_id = sh.id]
    /\ UNCHANGED <<sandboxes, sandbox_shares, portfolio, transactions,
                   equity_history, price_cache, eq_cache, now, started, ticks,
                   base, earlier, last_write, seeded, sequences>>

\* share_sandbox: INSERT INTO sandbox_shares (sandbox_id, owner_id,
\* shared_with_id, permission) ... RETURNING id; the handler answers the id
ShareInsert(p) ==
    /\ proc[p].pc = "sh_insert"
    /\ LET pr == proc[p]
           id == sequences.sandbox_shares
       IN  /\ sandbox_shares' = sandbox_shares \cup
                  {[id |-> id, sandbox_id |-> pr.sandbox_id, owner_id |-> pr.caller,
                    shared_with_id |-> pr.friend_id, permission |-> pr.permission]}
           /\ sequences' = [sequences EXCEPT !.sandbox_shares = id + 1]
           /\ proc' = [proc EXCEPT ![p] = Done([pr EXCEPT !.share_id = id], "ok")]
    /\ UNCHANGED <<sandboxes, portfolio, transactions, equity_history,
                   price_cache, eq_cache, now, started, ticks, base, earlier,
                   last_write, seeded>>

\* update_share and remove_share: share = SELECT id FROM sandbox_shares
\* WHERE id = %s AND sandbox_id = %s AND owner_id = %s
ShareSelect(p) ==
    /\ proc[p].pc = "sh_select"
    /\ LET pr == proc[p]
           found == \E sh \in sandbox_shares :
                       /\ sh.id = pr.share_id
                       /\ sh.sandbox_id = pr.sandbox_id
                       /\ sh.owner_id = pr.caller
       IN  proc' = [proc EXCEPT ![p] =
                IF ~found THEN Done(pr, "share_not_found")
                ELSE [pr EXCEPT !.pc = IF pr.handler = "update_share" THEN "sh_update"
                                       ELSE "sh_delete"]]
    /\ UNCHANGED <<sandboxes, sandbox_shares, portfolio, transactions,
                   equity_history, price_cache, eq_cache, now, started, ticks,
                   base, earlier, last_write, seeded, sequences>>

\* share_sandbox and update_share: UPDATE sandbox_shares SET permission = %s
\* WHERE id = %s; the handler answers ok
ShareUpdate(p) ==
    /\ proc[p].pc = "sh_update"
    /\ sandbox_shares' =
          {IF sh.id = proc[p].share_id
           THEN [sh EXCEPT !.permission = proc[p].permission] ELSE sh :
              sh \in sandbox_shares}
    /\ proc' = [proc EXCEPT ![p] = Done(@, "ok")]
    /\ UNCHANGED <<sandboxes, portfolio, transactions, equity_history,
                   price_cache, eq_cache, now, started, ticks, base, earlier,
                   last_write, seeded, sequences>>

\* remove_share: DELETE FROM sandbox_shares WHERE id = %s; the handler answers ok
ShareDelete(p) ==
    /\ proc[p].pc = "sh_delete"
    /\ sandbox_shares' = {sh \in sandbox_shares : sh.id # proc[p].share_id}
    /\ proc' = [proc EXCEPT ![p] = Done(@, "ok")]
    /\ UNCHANGED <<sandboxes, portfolio, transactions, equity_history,
                   price_cache, eq_cache, now, started, ticks, base, earlier,
                   last_write, seeded, sequences>>

\* remove_friend: friendship = SELECT id FROM friendships WHERE id = %s AND
\* (requester_id = %s OR addressee_id = %s).  friend: the other user of the
\* friendship found, 0 when there is none.
RemoveFriendSelect(p) ==
    /\ proc[p].pc = "fr_select"
    /\ \E friend \in (Users \ {proc[p].caller}) \cup {0} :
          proc' = [proc EXCEPT ![p] =
                IF friend = 0 THEN Done(@, "not_found")
                ELSE [@ EXCEPT !.pc = "fr_shares", !.friend_id = friend]]
    /\ UNCHANGED <<sandboxes, sandbox_shares, portfolio, transactions,
                   equity_history, price_cache, eq_cache, now, started, ticks,
                   base, earlier, last_write, seeded, sequences>>

\* remove_friend: DELETE FROM sandbox_shares of the shares between the caller
\* and the other user of the friendship, in both directions.  The statement
\* finds that user by its subselects on friendships when it runs: row is
\* whether the friendship, which the SELECT before it found, is still in the
\* table then; with the row gone the subselects are empty and no share is
\* deleted.
RemoveFriendShares(p) ==
    /\ proc[p].pc = "fr_shares"
    /\ \E row \in BOOLEAN :
          LET pr == proc[p]
          IN  sandbox_shares' =
                 IF ~row THEN sandbox_shares
                 ELSE {sh \in sandbox_shares :
                          ~ \/ sh.owner_id = pr.caller /\ sh.shared_with_id = pr.friend_id
                            \/ sh.shared_with_id = pr.caller /\ sh.owner_id = pr.friend_id}
    /\ proc' = [proc EXCEPT ![p].pc = "fr_delete"]
    /\ UNCHANGED <<sandboxes, portfolio, transactions, equity_history,
                   price_cache, eq_cache, now, started, ticks, base, earlier,
                   last_write, seeded, sequences>>

\* remove_friend: DELETE FROM friendships WHERE id = %s, a table of which
\* this state holds nothing; the handler answers ok
RemoveFriendship(p) ==
    /\ proc[p].pc = "fr_delete"
    /\ proc' = [proc EXCEPT ![p] = Done(@, "ok")]
    /\ UNCHANGED <<sandboxes, sandbox_shares, portfolio, transactions,
                   equity_history, price_cache, eq_cache, now, started, ticks,
                   base, earlier, last_write, seeded, sequences>>

\* create_sandbox: a body without a name is rejected; initial_balance =
\* float(body.get("balance", 10000.00)), which raises for a balance that is
\* no number (numeric), and the request is answered 500; INSERT INTO
\* sandboxes (name, user_id, balance, initial_balance) ... RETURNING id.  The
\* row gets the next id of the table and the clock of the store as
\* created_at.
CreateSandbox(p) ==
    /\ proc[p].pc = "cr_insert"
    /\ \E name \in BodyNames, initial_balance \in BodyBalances, numeric \in BOOLEAN :
          LET pr == proc[p]
              id == sequences.sandboxes
          IN  IF name = ""
              THEN /\ proc' = [proc EXCEPT ![p] = Done(pr, "invalid_parameters")]
                   /\ UNCHANGED <<sandboxes, sequences>>
              ELSE IF ~numeric
              THEN /\ proc' = [proc EXCEPT ![p] = Done(pr, "error")]
                   /\ UNCHANGED <<sandboxes, sequences>>
              ELSE /\ sandboxes' = [sandboxes EXCEPT ![id] =
                          [exists |-> TRUE, user_id |-> pr.caller,
                           balance |-> initial_balance,
                           initial_balance |-> initial_balance, created_at |-> now]]
                   /\ sequences' = [sequences EXCEPT !.sandboxes = id + 1]
                   /\ proc' = [proc EXCEPT ![p] =
                          Done([pr EXCEPT !.sandbox_id = id,
                                          !.new_balance = initial_balance], "ok")]
    /\ UNCHANGED <<sandbox_shares, portfolio, transactions, equity_history,
                   price_cache, eq_cache, now, started, ticks, base, earlier,
                   last_write, seeded>>

(***************************************************************************)
(* Failures of the store and the passing of time.                          *)
(***************************************************************************)
\* the positions of a handler at which the next thing run is a statement
\* whose exception reaches the handler's "except Exception"
StatementPositions ==
    {"access", "access_share", "sandbox", "buy_cash", "buy_select", "buy_lot",
     "sell_select", "sell_cash", "sell_lot", "record",
     "tx_rows", "pf_items", "pf_sandbox", "pf_txs",
     "ls_sandboxes", "ls_items", "ls_shares", "shared_rows", "shared_items",
     "sa_sandboxes", "sa_items",
     "del_select", "del_transactions", "del_portfolio", "del_sandbox",
     "sh_owner", "sh_friend", "sh_existing", "sh_insert", "sh_select", "sh_update",
     "sh_delete", "fr_select", "fr_shares", "fr_delete", "cr_insert"}

\* those of them at which the statement is an UPDATE, INSERT or DELETE
WritePositions == {"buy_cash", "buy_lot", "sell_cash", "sell_lot", "record"}

\* database.query raises (the statement is rolled back, nothing else is):
\* the handler answers 500
QueryFails(p) ==
    /\ proc[p].pc \in StatementPositions
    /\ proc' = [proc EXCEPT ![p] =
                    Done([proc[p] EXCEPT !.failed_at = proc[p].pc], "error")]
    /\ UNCHANGED <<sandboxes, sandbox_shares, portfolio, transactions,
                   equity_history, price_cache, eq_cache, now, started, ticks,
                   base, earlier, last_write, seeded, sequences>>

\* the SELECT of _snapshot_after_trade raises: its own except swallows it, no
\* snapshot is written and the cached curve stays; the trade answers ok
SnapshotItemsFails(p) ==
    /\ proc[p].pc = "snapshot_items"
    /\ proc' = [proc EXCEPT ![p] = Done(@, "ok")]
    /\ UNCHANGED <<sandboxes, sandbox_shares, portfolio, transactions,
                   equity_history, price_cache, eq_cache, now, started, ticks,
                   base, earlier, last_write, seeded, sequences>>

\* the INSERT of _record_equity_snapshot raises and is swallowed there
SnapshotFails(p) == SnapshotAfterTrade(p, FALSE)

\* the SELECT of _get_equity_history raises: get_portfolio answers 500
HistoryRowsFails(p) ==
    /\ proc[p].pc = "pf_rows"
    /\ proc' = [proc EXCEPT ![p] =
                    Done([proc[p] EXCEPT !.failed_at = proc[p].pc], "error")]
    /\ UNCHANGED <<sandboxes, sandbox_shares, portfolio, transactions,
                   equity_history, price_cache, eq_cache, now, started, ticks,
                   base, earlier, last_write, seeded, sequences>>

\* the INSERT of _record_equity_snapshot raises and is swallowed there
PortfolioSnapshotFails(p) == PortfolioSnapshotStep(p, FALSE)

\* the same in snapshot_all_sandboxes, which counts the sandbox all the same
SnapshotAllFails(p) == SnapshotAllStep(p, FALSE)

SeedDayFails(p) == SeedDayStep(p, FALSE)

\* _seed_equity_history raises: its except builds the two-point fallback
\* up to datetime.now() and returns it with the error message
SeedFails(p) ==
    /\ proc[p].pc = "pf_seed"
    /\ LET pr == proc[p]
           initial_balance == Exact(pr.response.initial_balance)
           history == <<[timestamp |-> pr.created_at * Millis, value |-> initial_balance],
                        [timestamp |-> now * Millis, value |-> initial_balance]>>
       IN  proc' = [proc EXCEPT ![p] =
                      [pr EXCEPT !.seed = [NoSeed EXCEPT !.called_at = pr.seed.called_at,
                                                    !.raised = pr.seed.raised],
                                 !.history = history,
                                 !.error_msg = TRUE,
                                 !.pc = "pf_seeded"]]
    /\ UNCHANGED <<sandboxes, sandbox_shares, portfolio, transactions,
                   equity_history, price_cache, eq_cache, now, started, ticks,
                   base, earlier, last_write, seeded, sequences>>

\* what the clock can advance by in one step: to the end of a price entry's
\* life, or to the next day
TickSteps == {PRICE_TTL, DaySeconds}

\* the clock advances by one of the given steps, at most max times
TickBy(steps, max) ==
    /\ ticks < max
    /\ \E d \in steps : now' = now + d
    /\ ticks' = ticks + 1
    /\ UNCHANGED <<sandboxes, sandbox_shares, portfolio, transactions,
                   equity_history, price_cache, eq_cache, proc, started, base,
                   earlier, last_write, seeded, sequences>>

Tick == TickBy(TickSteps, MaxTicks)

\* the clock passes the life of the cached prices between two requests; before
\* the first request nothing is cached
TickQuiet ==
    /\ \A p \in Procs : proc[p].pc \in {"idle", "done"}
    /\ started > 0
    /\ TickBy({PRICE_TTL}, MaxTicks)

(***************************************************************************)
(* Specifications.                                                         *)
(***************************************************************************)
\* Sandbox 1 belongs to user 1, who shares it with user 2 to watch and with
\* user 3 to edit; sandbox 2 belongs to user 2 and is shared with nobody;
\* there is no sandbox 3.  Both sandboxes have just been created (the clock
\* starts at their creation); nothing has been traded or viewed yet.
Init ==
    /\ \E b \in InitialBalances :
          sandboxes =
              [sid \in SandboxIds |->
                  IF sid = 1 THEN [exists |-> TRUE, user_id |-> 1, balance |-> b,
                                   initial_balance |-> b, created_at |-> 0]
                  ELSE IF sid = 2 THEN [exists |-> TRUE, user_id |-> 2, balance |-> b,
                                        initial_balance |-> b, created_at |-> 0]
                  ELSE NoSandbox]
    /\ sandbox_shares =
          {[id |-> 1, sandbox_id |-> 1, owner_id |-> 1, shared_with_id |-> 2,
            permission |-> "watch"],
           [id |-> 2, sandbox_id |-> 1, owner_id |-> 1, shared_with_id |-> 3,
            permission |-> "edit"]}
    /\ portfolio = <<>>
    /\ transactions = <<>>
    /\ equity_history = {}
    /\ price_cache = [s \in Symbols |-> NoEntry]
    /\ eq_cache = [sid \in SandboxIds |-> NoHistory]
    /\ now = 0
    /\ proc = [p \in Procs |-> IdleProc]
    /\ started = 0
    /\ ticks = 0
    /\ base = Store
    /\ earlier = Ledger(Store)
    /\ last_write = [k \in SandboxIds \X Days |-> NoWrite]
    /\ seeded = [sid \in SandboxIds |-> NoSeeded]
    /\ sequences = [sandboxes |-> 3, sandbox_shares |-> 3]

\* one step of the request thread p
Step(p) ==
    \/ AccessSandbox(p)
    \/ AccessShare(p)
    \/ TradePrice(p)
    \/ TradeFetch(p)
    \/ FetchPrice(p)
    \/ TradeSandbox(p)
    \/ BuyCash(p)
    \/ BuySelect(p)
    \/ BuyLot(p)
    \/ SellSelect(p)
    \/ SellCash(p)
    \/ SellLot(p)
    \/ Record(p)
    \/ SnapshotItems(p)
    \/ CurrentPrices(p)
    \/ Snapshot(p)
    \/ SnapshotDrop(p)
    \/ Return(p)

Fault(p) ==
    \/ QueryFails(p)
    \/ SnapshotItemsFails(p)
    \/ SnapshotFails(p)

\* one step of the request thread p in get_transactions or get_portfolio
View(p) ==
    \/ TransactionsRows(p)
    \/ PortfolioItems(p)
    \/ PortfolioSandbox(p)
    \/ PortfolioSnapshot(p)
    \/ PortfolioTransactions(p)
    \/ PortfolioHistory(p)
    \/ HistoryRows(p)
    \/ SeedTimeline(p)
    \/ HistoryCache(p)
    \/ GetHistoricalPrices(p)
    \/ SeedDay(p)
    \/ SeedReturn(p)

\* one step of the request thread p in get_sandboxes, get_shared_sandboxes,
\* snapshot_all_sandboxes, delete_sandbox, remove_friend or create_sandbox
Admin(p) ==
    \/ ListSandboxes(p)
    \/ ListItems(p)
    \/ ListShares(p)
    \/ SharedSandboxes(p)
    \/ SharedItems(p)
    \/ SharedResults(p)
    \/ SnapshotAllSandboxes(p)
    \/ SnapshotAllItems(p)
    \/ SnapshotAll(p)
    \/ DeleteSelect(p)
    \/ DeleteTransactions(p)
    \/ DeletePortfolio(p)
    \/ DeleteSandbox(p)
    \/ RemoveFriendSelect(p)
    \/ RemoveFriendShares(p)
    \/ RemoveFriendship(p)
    \/ CreateSandbox(p)

\* one step of the request thread p in share_sandbox, update_share or
\* remove_share
Share(p) ==
    \/ ShareOwner(p)
    \/ ShareFriend(p)
    \/ ShareExisting(p)
    \/ ShareInsert(p)
    \/ ShareSelect(p)
    \/ ShareUpdate(p)
    \/ ShareDelete(p)

ViewFault(p) ==
    \/ HistoryRowsFails(p)
    \/ PortfolioSnapshotFails(p)
    \/ SeedDayFails(p)
    \/ SeedFails(p)

\* requests one after another on one thread, the store never failing
NextSeq ==
    \/ BeginTradeAlone(1, Users, SandboxIds, MaxTrades)
    \/ Step(1)
    \/ Tick

SpecSeq == Init /\ [][NextSeq]_vars

\* the callers of the ledger runs: the owner of sandbox 1, whose trades are
\* executed, and the grantee with watch, whose trades are refused
LedgerCallers == {1, 2}

\* trade requests on sandbox 1, one after another
NextLedger ==
    \/ BeginTradeAlone(1, LedgerCallers, {1}, MaxOwnerTrades)
    \/ Step(1)
    \/ Tick

SpecLedger == Init /\ [][NextLedger]_vars

(***************************************************************************)
(* trade_stock in doubles.                                                 *)
(*                                                                         *)
(* The steps of a trade request that compute: every amount is the double   *)
(* the code holds, the quantity and the amount of the body, the provider's *)
(* price, the balance, the lots.  The steps are those of Step, statement   *)
(* by statement; the steps that only read or write what they are given     *)
(* are shared with it.                                                     *)
(***************************************************************************)
\* balances sandbox 1 and 2 can have been created with: 15269.37 and 10000
FloatBalances == {Float(1526937, 2), Float(10000, 0)}
\* (quantity, amount) of a request body: 3317.4601 shares, 1 share, 100
\* dollars' worth, or neither
FloatBodies == {<<Float(33174601, 4), Zero>>, <<Float(1, 0), Zero>>,
                <<Zero, Float(100, 0)>>, <<Zero, Zero>>}
\* what the provider can report as a last price: 2.05 or 2
FloatPrices == {Float(205, 2), Float(2, 0)}
\* the symbol of a request body, "" being a missing one
FloatSymbols == {"X", ""}
\* the owner of sandbox 1 and the grantee with watch
FloatCallers == {1, 2}
\* _execute_sell: new_qty <= 0.000001
Dust == Float(1, 6)

InitFloat ==
    /\ \E b \in FloatBalances :
          sandboxes =
              [sid \in SandboxIds |->
                  IF sid = 1 THEN [exists |-> TRUE, user_id |-> 1, balance |-> b,
                                   initial_balance |-> b, created_at |-> 0]
                  ELSE IF sid = 2 THEN [exists |-> TRUE, user_id |-> 2, balance |-> b,
                                        initial_balance |-> b, created_at |-> 0]
                  ELSE NoSandbox]
    /\ sandbox_shares =
          {[id |-> 1, sandbox_id |-> 1, owner_id |-> 1, shared_with_id |-> 2,
            permission |-> "watch"],
           [id |-> 2, sandbox_id |-> 1, owner_id |-> 1, shared_with_id |-> 3,
            permission |-> "edit"]}
    /\ portfolio = <<>>
    /\ transactions = <<>>
    /\ equity_history = {}
    /\ price_cache = [s \in Symbols |-> NoEntry]
    /\ eq_cache = [sid \in SandboxIds |-> NoHistory]
    /\ now = 0
    /\ proc = [p \in Procs |-> IdleProc]
    /\ started = 0
    /\ ticks = 0
    /\ base = Store
    /\ earlier = Ledger(Store)
    /\ last_write = [k \in SandboxIds \X Days |-> NoWrite]
    /\ seeded = [sid \in SandboxIds |-> NoSeeded]
    /\ sequences = [sandboxes |-> 3, sandbox_shares |-> 3]

\* _get_current_price(symbol) from its provider call on, in doubles: outcome
\* is what the provider answers, Zero for no price (None, 0.0, or an
\* exception); a price is cached until t + 300, t being the clock read on
\* entry, and written at the clock at
FloatCurrentPrice(cache, t, at, sym, outcome) ==
    IF outcome # Zero
    THEN [price |-> outcome,
          cache |-> [cache EXCEPT ![sym] =
                        [present |-> TRUE, val |-> outcome, expiry |-> t + PRICE_TTL,
                         written |-> at]]]
    ELSE [price |-> Zero, cache |-> cache]

\* "if amount > 0 and quantity <= 0: quantity = amount / price"
FloatResolveQuantity(quantity, amount, price) ==
    IF FloatLess(Zero, amount) /\ FloatLessEq(quantity, Zero)
    THEN FloatDiv(amount, price)
    ELSE quantity

\* trade_stock from "if not price" to total_cost = price * quantity
FloatAfterPrice(pr, price) ==
    IF price = Zero THEN Done(pr, "no_price")
    ELSE IF FloatLessEq(FloatResolveQuantity(pr.quantity, pr.amount, price), Zero)
    THEN Done([pr EXCEPT !.price = price], "invalid_quantity")
    ELSE [pr EXCEPT !.pc = "sandbox", !.price = price,
                    !.quantity = FloatResolveQuantity(pr.quantity, pr.amount, price),
                    !.total_cost =
                        FloatMul(price,
                                 FloatResolveQuantity(pr.quantity, pr.amount, price))]

\* _execute_buy: the lot after a BUY of quantity at price; old is the row read
FloatBuyLot(pf, sid, uid, sym, old, quantity, price) ==
    IF old.found
    THEN LET new_qty == FloatAdd(old.quantity, quantity)
             new_avg == FloatDiv(FloatAdd(FloatMul(old.quantity, old.average_buy_price),
                                          FloatMul(quantity, price)),
                                 new_qty)
         IN  UpdateLot(pf, sid, sym, uid, new_qty, new_avg)
    ELSE Append(pf, [sandbox_id |-> sid, user_id |-> uid, symbol |-> sym,
                     quantity |-> quantity, average_buy_price |-> price])

\* _execute_sell: the lot after a SELL of quantity out of owned_qty
FloatSellLot(pf, sid, uid, sym, owned_qty, quantity) ==
    LET new_qty == FloatSub(owned_qty, quantity)
    IN  IF FloatLessEq(new_qty, Dust) THEN DeleteLot(pf, sid, sym, uid)
        ELSE UpdateLotQuantity(pf, sid, sym, uid, new_qty)

\* sum(float(i["quantity"]) * prices.get(i["symbol"], 0) for i in items)
FloatHoldingsValue(items, prices) ==
    FloatSum([i \in Indices(items) |->
                 FloatMul(items[i].quantity, DictGet(prices, items[i].symbol, Zero))])

\* _get_current_prices(symbols) up to its first provider call, in doubles:
\* the cache is read at t for every symbol; with nothing missing the handler
\* goes on at resume.  fail: yf.Tickers itself raises, and every missing
\* symbol is priced 0.0 without being cached.  Otherwise the thread waits
\* for the last price of the first missing symbol.
FloatCurrentPrices(pr, cache, t, syms, fail, resume) ==
    LET Missing(s) == ~Fresh(cache, t, s)
        missing == SelectSeq(syms, Missing)
        asked == {missing[i] : i \in DOMAIN missing}
        hit == {syms[i] : i \in DOMAIN syms} \ asked
    IN  IF missing = <<>>
        THEN Resume([pr EXCEPT !.failed = {},
                               !.prices = [s \in hit |-> cache[s].val]], resume, t)
        ELSE IF fail
        THEN Resume([pr EXCEPT !.failed = asked,
                               !.prices = [s \in hit \cup asked |->
                                              IF s \in hit THEN cache[s].val ELSE Zero]],
                    resume, t)
        ELSE [pr EXCEPT !.pc = "fetch", !.failed = {}, !.missing = missing,
                        !.looked_at = t, !.resume = resume,
                        !.prices = [s \in hit |-> cache[s].val]]

\* trade_stock, from the body to the cache of _get_current_price: quantity
\* and amount are the doubles of the body
TradePriceFloat(p) ==
    /\ proc[p].pc = "price"
    /\ \E sym \in FloatSymbols, type \in BodyTypes, body \in FloatBodies :
          LET pr == [proc[p] EXCEPT !.symbol = sym, !.type = type,
                                    !.quantity = body[1], !.amount = body[2]]
              valid == sym # "" /\ type \in {"BUY", "SELL"}
          IN  proc' = [proc EXCEPT ![p] =
                    IF ~valid THEN Done(pr, "invalid_parameters")
                    ELSE IF Fresh(price_cache, now, sym)
                    THEN FloatAfterPrice(pr, price_cache[sym].val)
                    ELSE [pr EXCEPT !.pc = "price_fetch", !.looked_at = now]]
    /\ UNCHANGED <<sandboxes, sandbox_shares, portfolio, transactions,
                   equity_history, price_cache, eq_cache, now, started, ticks,
                   base, earlier, last_write, seeded, sequences>>

\* _get_current_price: the provider answers, a price it gave is cached, and
\* trade_stock goes on with it
TradeFetchFloat(p) ==
    /\ proc[p].pc = "price_fetch"
    /\ \E outcome \in FloatPrices \cup {Zero} :
          LET pr == proc[p]
              got == FloatCurrentPrice(price_cache, pr.looked_at, now, pr.symbol, outcome)
          IN  /\ price_cache' = got.cache
              /\ proc' = [proc EXCEPT ![p] =
                             FloatAfterPrice([pr EXCEPT !.looked_at = 0], got.price)]
    /\ UNCHANGED <<sandboxes, sandbox_shares, portfolio, transactions,
                   equity_history, eq_cache, now, started, ticks, base, earlier,
                   last_write, seeded, sequences>>

\* trade_stock: SELECT * FROM sandboxes ..., current_balance =
\* float(sandbox["balance"]), then the first check of _execute_buy and
\* new_balance = current_balance - total_cost (a SELL goes on to read its lot)
TradeSandboxFloat(p) ==
    /\ proc[p].pc = "sandbox"
    /\ LET pr == proc[p]
           sb == SelectSandbox(sandboxes, pr.sandbox_id, pr.owner_id)
           q == [pr EXCEPT !.current_balance = sb.balance]
       IN  proc' = [proc EXCEPT ![p] =
                IF ~sb.exists THEN Done(pr, "sandbox_not_found")
                ELSE IF pr.type = "SELL" THEN [q EXCEPT !.pc = "sell_select"]
                ELSE IF FloatLess(sb.balance, pr.total_cost)
                THEN Done(q, "insufficient_funds")
                ELSE [q EXCEPT !.pc = "buy_cash",
                               !.new_balance = FloatSub(sb.balance, pr.total_cost)]]
    /\ UNCHANGED <<sandboxes, sandbox_shares, portfolio, transactions,
                   equity_history, price_cache, eq_cache, now, started, ticks,
                   base, earlier, last_write, seeded, sequences>>

\* _execute_buy: UPDATE the lot to new_qty and new_avg, or INSERT a new lot
BuyLotFloat(p) ==
    /\ proc[p].pc = "buy_lot"
    /\ LET pr == proc[p]
       IN  portfolio' = FloatBuyLot(portfolio, pr.sandbox_id, pr.owner_id, pr.symbol,
                                    pr.existing, pr.quantity, pr.price)
    /\ proc' = [proc EXCEPT ![p].pc = "record"]
    /\ UNCHANGED <<sandboxes, sandbox_shares, transactions, equity_history,
                   price_cache, eq_cache, now, started, ticks, base, earlier,
                   last_write, seeded, sequences>>

\* _execute_sell: existing = SELECT quantity FROM sandbox_portfolio, owned_qty
\* = float(existing["quantity"]) if existing else 0, the check of it, and
\* new_balance = current_balance + total_cost
SellSelectFloat(p) ==
    /\ proc[p].pc = "sell_select"
    /\ LET pr == proc[p]
       IN  \E row \in SelectLot(portfolio, pr.sandbox_id, pr.symbol, pr.owner_id) :
              LET owned == [row EXCEPT !.quantity = IF row.found THEN @ ELSE Zero]
              IN  proc' = [proc EXCEPT ![p] =
                      IF FloatLess(owned.quantity, pr.quantity)
                      THEN Done([pr EXCEPT !.existing = owned], "insufficient_shares")
                      ELSE [pr EXCEPT !.pc = "sell_cash", !.existing = owned,
                                      !.new_balance = FloatAdd(pr.current_balance,
                                                               pr.total_cost)]]
    /\ UNCHANGED <<sandboxes, sandbox_shares, portfolio, transactions,
                   equity_history, price_cache, eq_cache, now, started, ticks,
                   base, earlier, last_write, seeded, sequences>>

\* _execute_sell: new_qty = owned_qty - quantity; DELETE the lot when that is
\* at most 0.000001, else UPDATE its quantity
SellLotFloat(p) ==
    /\ proc[p].pc = "sell_lot"
    /\ LET pr == proc[p]
       IN  portfolio' = FloatSellLot(portfolio, pr.sandbox_id, pr.owner_id, pr.symbol,
                                     pr.existing.quantity, pr.quantity)
    /\ proc' = [proc EXCEPT ![p].pc = "record"]
    /\ UNCHANGED <<sandboxes, sandbox_shares, transactions, equity_history,
                   price_cache, eq_cache, now, started, ticks, base, earlier,
                   last_write, seeded, sequences>>

\* a handler whose SELECT has returned calls _get_current_prices(symbols)
CurrentPricesFloat(p) ==
    /\ proc[p].pc = "prices"
    /\ \E fail \in BOOLEAN :
          proc' = [proc EXCEPT ![p] =
                      FloatCurrentPrices(proc[p], price_cache, now, proc[p].symbols, fail,
                                         proc[p].resume)]
    /\ UNCHANGED <<sandboxes, sandbox_shares, portfolio, transactions,
                   equity_history, price_cache, eq_cache, now, started, ticks,
                   base, earlier, last_write, seeded, sequences>>

\* _get_current_prices: the provider answers for the symbol waited for.  A
\* price is returned and cached; an exception (raised) is returned and cached
\* as 0.0; a missing last price (Zero) is neither.  The thread then waits for
\* the next missing symbol, or the handler goes on.
FetchPriceFloat(p) ==
    /\ proc[p].pc = "fetch"
    /\ \E outcome \in FloatPrices \cup {Zero}, raised \in BOOLEAN :
          LET pr == proc[p]
              sym == Head(pr.missing)
              rest == Tail(pr.missing)
              kept == raised \/ outcome # Zero
              q == [pr EXCEPT !.missing = rest,
                              !.prices = IF ~kept THEN @
                                         ELSE [s \in DOMAIN @ \cup {sym} |->
                                                  IF s = sym THEN outcome ELSE @[s]],
                              !.failed = IF raised THEN @ \cup {sym} ELSE @]
          IN  /\ raised => outcome = Zero
              /\ price_cache' =
                    IF ~kept THEN price_cache
                    ELSE [price_cache EXCEPT ![sym] =
                             [present |-> TRUE, val |-> outcome,
                              expiry |-> pr.looked_at + PRICE_TTL,
                              written |-> now]]
              /\ proc' = [proc EXCEPT ![p] =
                    IF rest # <<>> THEN q
                    ELSE Resume(q, pr.resume, now)]
    /\ UNCHANGED <<sandboxes, sandbox_shares, portfolio, transactions,
                   equity_history, eq_cache, now, started, ticks, base, earlier,
                   last_write, seeded, sequences>>

\* _snapshot_after_trade: holdings, total = cash_balance + holdings, and the
\* INSERT of round(total, 2), round(cash_balance, 2), round(holdings, 2) for
\* the date read before it
SnapshotFloat(p) ==
    /\ proc[p].pc = "snapshot"
    /\ LET pr == proc[p]
           holdings == FloatHoldingsValue(pr.items, pr.prices)
           total == FloatAdd(pr.new_balance, holdings)
       IN  /\ proc' = [proc EXCEPT ![p] =
                          [pr EXCEPT !.pc = "snapshot_drop", !.holdings = holdings]]
           /\ WriteSnapshot(TRUE, pr.sandbox_id, pr.owner_id,
                            FloatRound2(total), FloatRound2(pr.new_balance),
                            FloatRound2(holdings), pr.snapshot_date)
    /\ UNCHANGED <<sandboxes, sandbox_shares, portfolio, transactions, price_cache,
                   eq_cache, now, started, ticks, base, earlier, seeded, sequences>>

\* one step of the request thread p in trade_stock, in doubles: the
\* statements that compute nothing are those of Step
StepFloat(p) ==
    \/ AccessSandbox(p)
    \/ AccessShare(p)
    \/ TradePriceFloat(p)
    \/ TradeFetchFloat(p)
    \/ FetchPriceFloat(p)
    \/ TradeSandboxFloat(p)
    \/ BuyCash(p)
    \/ BuySelect(p)
    \/ BuyLotFloat(p)
    \/ SellSelectFloat(p)
    \/ SellCash(p)
    \/ SellLotFloat(p)
    \/ Record(p)
    \/ SnapshotItems(p)
    \/ CurrentPricesFloat(p)
    \/ SnapshotFloat(p)
    \/ SnapshotDrop(p)
    \/ Return(p)

\* trade requests in doubles on sandbox 1, one after another on one thread;
\* the clock moves between any two steps
NextFloat ==
    \/ BeginTradeAlone(1, FloatCallers, {1}, MaxFloatTrades)
    \/ StepFloat(1)
    \/ Tick

SpecFloat == InitFloat /\ [][NextFloat]_vars

\* the body of the request of thread p, once read, is a BUY of one share of X
BuysOneShare(p) ==
    /\ proc'[p].result \notin {"invalid_parameters", "invalid_quantity"}
    /\ proc'[p].pc \in {"price_fetch", "sandbox"} =>
          /\ proc'[p].type = "BUY"
          /\ proc'[p].quantity = Float(1, 0)

\* requests of the owner of sandbox 1 in doubles, each a BUY of one share of
\* X, served by two threads, their statements interleaving
NextFloatConc ==
    /\ \/ \E p \in Procs : BeginTrade(p, {1}, {1}, MaxFloatTrades)
       \/ \E p \in Procs : StepFloat(p)
    /\ \A p \in Procs : BuysOneShare(p)

SpecFloatConc == InitFloat /\ [][NextFloatConc]_vars

\* requests one after another on one thread, any statement may fail
NextSeqFault ==
    \/ BeginTradeAlone(1, Users, SandboxIds, MaxTrades)
    \/ Step(1)
    \/ Fault(1)
    \/ Tick

SpecSeqFault == Init /\ [][NextSeqFault]_vars

\* requests of every handler, by every caller for every sandbox id, one
\* after another, the store never failing
NextView ==
    \/ BeginTradeAlone(1, Users, SandboxIds, MaxTrades)
    \/ BeginViewAlone(1, Users, SandboxIds, MaxTrades)
    \/ Step(1)
    \/ View(1)
    \/ Tick

SpecView == Init /\ [][NextView]_vars

\* trades and views of sandbox 1 by its owner and the grantee with watch, one
\* after another, where any statement may fail
NextViewFault ==
    \/ BeginTradeAlone(1, LedgerCallers, {1}, MaxTrades)
    \/ BeginViewAlone(1, LedgerCallers, {1}, MaxTrades)
    \/ Step(1)
    \/ View(1)
    \/ Fault(1)
    \/ ViewFault(1)
    \/ Tick

SpecViewFault == Init /\ [][NextViewFault]_vars

\* requests of every handler, one after another; the only statement that
\* fails is the INSERT of a snapshot of snapshot_all_sandboxes, whose
\* exception no caller sees
NextAll ==
    \/ BeginTradeAlone(1, Users, SandboxIds, MaxTrades)
    \/ BeginViewAlone(1, Users, SandboxIds, MaxTrades)
    \/ BeginUserAlone(1, Users, MaxTrades)
    \/ BeginDeleteAlone(1, Users, SandboxIds, MaxTrades)
    \/ BeginShareAlone(1, Users, SandboxIds, MaxTrades)
    \/ Step(1)
    \/ View(1)
    \/ Admin(1)
    \/ SnapshotAllFails(1)
    \/ Share(1)
    \/ Tick

SpecAll == Init /\ [][NextAll]_vars

\* the steps of the clock around the life of a cached curve: to its end, or
\* to the next day
SeedTickSteps == {HISTORY_TTL, DaySeconds}

\* the caller of the views of the seed runs: the grantee with watch, whose
\* requests pass both statements of the guard
Watchers == {2}

\* up to two trades of the owner of sandbox 1 and then views of it by the
\* grantee with watch, one request after another
NextSeed ==
    \/ BeginTradeAlone(1, {1}, {1}, MaxTrades)
    \/ BeginViewAlone(1, Watchers, {1}, MaxOwnerTrades)
    \/ Step(1)
    \/ View(1)
    \/ TickBy(SeedTickSteps, MaxTicks)

SpecSeed == Init /\ [][NextSeed]_vars

\* the steps of the clock around the life of a price entry: one second, and
\* one second less than the life
PriceTickSteps == {1, PRICE_TTL - 1}

\* trade requests on sandbox 1, one after another, while the clock passes the
\* end of the life of the cached prices
NextPrice ==
    \/ BeginTradeAlone(1, LedgerCallers, {1}, MaxTrades)
    \/ Step(1)
    \/ TickBy(PriceTickSteps, MaxPriceTicks)

SpecPrice == Init /\ [][NextPrice]_vars

\* the callers who may trade on sandbox 1, each served by a thread of its
\* own: its owner and the grantee with edit
Traders == [p \in Procs |-> IF p = 1 THEN 1 ELSE 3]

\* trade requests on sandbox 1 and requests of its owner about its shares,
\* served by two threads, their statements interleaving
NextConc ==
    \/ \E p \in Procs : BeginTrade(p, {Traders[p]}, {1}, MaxTrades)
    \/ BeginShare(1, {1}, {1}, MaxTrades)
    \/ \E p \in Procs : Step(p)
    \/ Share(1)
    \/ TickQuiet

SpecConc == Init /\ [][NextConc]_vars

\* the state in which the owner of sandbox 1, created with 6, has bought 4 X
\* at the price 1 and has been answered: the lot, the log row, the snapshot
\* of the day and the cached price are in place
InitHeld ==
    /\ sandboxes =
          [sid \in SandboxIds |->
              IF sid = 1 THEN [exists |-> TRUE, user_id |-> 1, balance |-> 2,
                               initial_balance |-> 6, created_at |-> 0]
              ELSE IF sid = 2 THEN [exists |-> TRUE, user_id |-> 2, balance |-> 6,
                                    initial_balance |-> 6, created_at |-> 0]
              ELSE NoSandbox]
    /\ sandbox_shares =
          {[id |-> 1, sandbox_id |-> 1, owner_id |-> 1, shared_with_id |-> 2,
            permission |-> "watch"],
           [id |-> 2, sandbox_id |-> 1, owner_id |-> 1, shared_with_id |-> 3,
            permission |-> "edit"]}
    /\ portfolio = InsertLot(<<>>, 1, 1, "X", 4, 1)
    /\ transactions = <<[sandbox_id |-> 1, user_id |-> 1, symbol |-> "X", type |-> "BUY",
                         quantity |-> 4, price |-> 1, executed_at |-> 0]>>
    /\ equity_history =
          RecordEquitySnapshot({}, 1, 1, Cents(Round2(6)), Cents(Round2(2)),
                               Cents(Round2(4)), 0)
    /\ price_cache = GetCurrentPrice([s \in Symbols |-> NoEntry], 0, 0, "X", 1).cache
    /\ eq_cache = [sid \in SandboxIds |-> NoHistory]
    /\ now = 0
    /\ proc = [p \in Procs |-> IdleProc]
    /\ started = 1
    /\ ticks = 0
    /\ base = [sandboxes |-> [sandboxes EXCEPT ![1].balance = 6], portfolio |-> <<>>,
               transactions |-> <<>>, equity_history |-> {}]
    /\ earlier = Ledger(base)
    /\ last_write = RecordWrite([k \in SandboxIds \X Days |-> NoWrite], 1, 0,
                                Cents(Round2(6)), Cents(Round2(2)), Cents(Round2(4)))
    /\ seeded = [sid \in SandboxIds |-> NoSeeded]
    /\ sequences = [sandboxes |-> 3, sandbox_shares |-> 3]

\* two more trade requests on sandbox 1, by its owner and the grantee with
\* edit, whose statements interleave, after the owner's BUY
NextHeld ==
    \/ \E p \in Procs : BeginTrade(p, {Traders[p]}, {1}, MaxOwnerTrades)
    \/ \E p \in Procs : Step(p)
    \/ TickQuiet

SpecHeld == InitHeld /\ [][NextHeld]_vars

(***************************************************************************)
(* What the claims speak of.                                               *)
(***************************************************************************)
\* thread p is between requests or has answered one
Quiet(p) == proc[p].pc \in {"idle", "done"}

\* the request of pr got as far as a price and a valid quantity
Priced(pr) == pr.handler = "trade" /\ pr.total_cost > 0

\* the ledgers that the trade of a finished request pr, run alone on the
\* ledger st, can leave: the statements of trade_stock from its SELECT of the
\* sandbox on, with nothing in between.  The SELECT of the lot has no ORDER
\* BY and fetchone takes its first row: any of the rows of the sandbox and
\* the symbol can be the one (old).  The row of the log carries the time of
\* the trade's own INSERT.  A request that was turned away before that leaves
\* st as it is.
TradeAlone(st, pr) ==
    LET sid == pr.sandbox_id
        uid == pr.owner_id
        sb == SelectSandbox(st.sandboxes, sid, uid)
        log == RecordTransaction(st.transactions, sid, pr.symbol, pr.type,
                                 pr.quantity, pr.price, uid, pr.executed_at)
        Outcome(old) ==
            IF pr.type = "BUY"
            THEN IF InsufficientFunds(sb.balance, pr.total_cost) THEN st
                 ELSE [sandboxes |-> UpdateBalance(st.sandboxes, sid, uid,
                                                   BuyBalance(sb.balance, pr.total_cost)),
                       portfolio |->
                           IF old.found
                           THEN UpdateLot(st.portfolio, sid, pr.symbol, uid,
                                          old.quantity + pr.quantity,
                                          NewAverage(old.quantity, old.average_buy_price,
                                                     pr.quantity, pr.price))
                           ELSE InsertLot(st.portfolio, sid, uid, pr.symbol,
                                          pr.quantity, pr.price),
                       transactions |-> log]
            ELSE IF InsufficientShares(old.quantity, pr.quantity) THEN st
                 ELSE [sandboxes |-> UpdateBalance(st.sandboxes, sid, uid,
                                                   SellBalance(sb.balance, pr.total_cost)),
                       portfolio |->
                           IF IsDust(old.quantity - pr.quantity)
                           THEN DeleteLot(st.portfolio, sid, pr.symbol, uid)
                           ELSE UpdateLotQuantity(st.portfolio, sid, pr.symbol, uid,
                                                  old.quantity - pr.quantity),
                       transactions |-> log]
    IN  IF ~Priced(pr) \/ ~sb.exists THEN {st}
        ELSE {Outcome(old) : old \in SelectLot(st.portfolio, sid, pr.symbol, uid)}

\* the ledgers that two finished trades, run alone one after the other on the
\* ledger st, can leave
TradesAlone(st, first, second) ==
    UNION {TradeAlone(mid, second) : mid \in TradeAlone(st, first)}

BothDone == \A p \in Procs : proc[p].pc = "done"

\* the rows of a table, each with the number of times it occurs: what a table
\* holds whatever the order its rows were inserted in
Rows(table) ==
    [r \in {table[i] : i \in Indices(table)} |->
        Cardinality({i \in Indices(table) : table[i] = r})]

\* two ledgers with the same cash balances, the same lots and the same
\* transaction rows
SameLedger(a, b) ==
    /\ a.sandboxes = b.sandboxes
    /\ Rows(a.portfolio) = Rows(b.portfolio)
    /\ Rows(a.transactions) = Rows(b.transactions)

\* C1: for any two trades running concurrently on the same sandbox, the final
\* cash balance, lots and transaction log equal those obtained by running the
\* same two trades one after the other in some order.
C1_Serializable ==
    (BothDone /\ proc[1].sandbox_id = proc[2].sandbox_id)
        => \E serial \in TradesAlone(Ledger(base), proc[1], proc[2])
                          \cup TradesAlone(Ledger(base), proc[2], proc[1]) :
              SameLedger(Ledger(Store), serial)

\* the two finished requests are BUYs on one sandbox whose cash, when the
\* first of them started, covered either alone but not both
TwoBuysOneAffordable ==
    /\ BothDone
    /\ proc[1].sandbox_id = proc[2].sandbox_id
    /\ \A p \in Procs : Priced(proc[p]) /\ proc[p].type = "BUY"
    /\ LET cash == base.sandboxes[proc[1].sandbox_id].balance
       IN  /\ \A p \in Procs : proc[p].total_cost <= cash
           /\ proc[1].total_cost + proc[2].total_cost > cash

\* C2: when two BUY requests run concurrently on one sandbox whose cash covers
\* either of them alone but not both, exactly one of them succeeds and the
\* other fails with an insufficient-funds error.
C2_ExactlyOneBuySucceeds ==
    TwoBuysOneAffordable
        => \E p \in Procs, q \in Procs :
              /\ p # q
              /\ proc[p].result = "ok"
              /\ proc[q].result = "insufficient_funds"

RECURSIVE SideTotal(_, _, _)
SideTotal(log, sid, side) ==
    IF log = <<>> THEN Zero
    ELSE IF Head(log).sandbox_id = sid /\ Head(log).type = side
    THEN ExactAdd(ExactMul(Head(log).price, Head(log).quantity),
                  SideTotal(Tail(log), sid, side))
    ELSE SideTotal(Tail(log), sid, side)

\* C4: after any sequence of trade requests on a sandbox executed one after
\* another, the stored cash balance equals, exactly, the initial balance plus
\* the sum of price * quantity over the SELL rows of its log minus that over
\* its BUY rows (the BUY total is added to the cash instead).
C4_CashMatchesLog ==
    Quiet(1) =>
        \A sid \in SandboxIds :
            sandboxes[sid].exists =>
                ExactEqual(ExactAdd(sandboxes[sid].balance,
                                    SideTotal(transactions, sid, "BUY")),
                           ExactAdd(sandboxes[sid].initial_balance,
                                    SideTotal(transactions, sid, "SELL")))

\* the quantity of a symbol in the BUY rows of a sandbox minus that in its SELL rows
RECURSIVE NetQuantity(_, _, _)
NetQuantity(log, sid, sym) ==
    IF log = <<>> THEN 0
    ELSE (IF Head(log).sandbox_id = sid /\ Head(log).symbol = sym
          THEN (IF Head(log).type = "BUY" THEN Head(log).quantity
                ELSE -Head(log).quantity)
          ELSE 0)
         + NetQuantity(Tail(log), sid, sym)

\* the average cost of a symbol after the log, by the weighted-average rule
\* alone, from an average avg over a quantity qty: a BUY of q at p makes it
\* (qty * avg + q * p) / (qty + q), a SELL leaves it
RECURSIVE PlainAverage(_, _, _, _, _)
PlainAverage(log, sid, sym, qty, avg) ==
    IF log = <<>> THEN avg
    ELSE LET t == Head(log)
         IN  IF t.sandbox_id # sid \/ t.symbol # sym
             THEN PlainAverage(Tail(log), sid, sym, qty, avg)
             ELSE IF t.type = "BUY"
             THEN PlainAverage(Tail(log), sid, sym, qty + t.quantity,
                               Frac(qty * avg[1] + t.quantity * t.price * avg[2],
                                    avg[2] * (qty + t.quantity)))
             ELSE PlainAverage(Tail(log), sid, sym, qty - t.quantity, avg)

\* the lot rows of a symbol in a sandbox, as (quantity, average cost)
LotsOf(pf, sid, sym) ==
    {<<pf[i].quantity, pf[i].average_buy_price>> :
        i \in {j \in Indices(pf) : pf[j].sandbox_id = sid /\ pf[j].symbol = sym}}

\* C5 as stated: after any sequence of trades executed one after another, for
\* every symbol the stored lot quantity equals the sum of BUY quantities minus
\* the sum of SELL quantities of the log, the lot being absent when that
\* difference is at most 1e-6, and the stored average cost is the one the
\* weighted-average rule gives on that log.
C5_LotIsNetOfLog ==
    Quiet(1) =>
        \A sid \in SandboxIds, sym \in Symbols :
            LET net == NetQuantity(transactions, sid, sym)
            IN  LotsOf(portfolio, sid, sym) =
                    IF net * MicroPerShare <= QtyDenom THEN {}
                    ELSE {<<net, PlainAverage(transactions, sid, sym, 0, <<0, 1>>)>>}

\* the lot of a symbol after the log, from the lot (qty, avg), qty = 0 for no
\* lot: a BUY adds to the lot by the weighted-average rule or opens it at the
\* price; a SELL takes its quantity off and, when at most 1e-6 is left, the
\* lot and what was left of it are gone
RECURSIVE ReplayLot(_, _, _, _, _)
ReplayLot(log, sid, sym, qty, avg) ==
    IF log = <<>> THEN <<qty, avg>>
    ELSE LET t == Head(log)
             left == qty - t.quantity
         IN  IF t.sandbox_id # sid \/ t.symbol # sym
             THEN ReplayLot(Tail(log), sid, sym, qty, avg)
             ELSE IF t.type = "BUY"
             THEN ReplayLot(Tail(log), sid, sym, qty + t.quantity,
                            IF qty = 0 THEN <<t.price, 1>>
                            ELSE Frac(qty * avg[1] + t.quantity * t.price * avg[2],
                                      avg[2] * (qty + t.quantity)))
             ELSE IF left * MicroPerShare <= QtyDenom
             THEN ReplayLot(Tail(log), sid, sym, 0, <<0, 1>>)
             ELSE ReplayLot(Tail(log), sid, sym, left, avg)

\* C5, amended: after any sequence of trades executed one after another, for
\* every symbol the stored lot is the one obtained by replaying the log from
\* an empty portfolio, a BUY by the weighted-average rule and a SELL removing
\* the lot together with a remainder of at most 1e-6: there is no lot row when
\* the replay ends without one, and otherwise one row with its quantity and
\* average cost.
C5_LotIsReplayOfLog ==
    Quiet(1) =>
        \A sid \in SandboxIds, sym \in Symbols :
            LET lot == ReplayLot(transactions, sid, sym, 0, <<0, 1>>)
            IN  LotsOf(portfolio, sid, sym) = IF lot[1] = 0 THEN {} ELSE {lot}

\* a lot bought again after a SELL dropped a remainder: it holds less than
\* the log's BUYs minus its SELLs
C5_Witness ==
    /\ Quiet(1)
    /\ \E sym \in Symbols :
          LET lots == LotsOf(portfolio, 1, sym)
          IN  /\ lots # {}
              /\ \A lot \in lots : lot[1] < NetQuantity(transactions, 1, sym)

\* what a sandbox holds of a symbol
Held(pf, sid, sym, uid) ==
    SumSeq([i \in Indices(pf) |->
               IF LotMatches(pf[i], sid, sym, uid) THEN pf[i].quantity ELSE 0])

\* C6: a BUY whose total cost exceeds the sandbox's cash balance always fails
\* with an insufficient-funds error and leaves the cash balance, every lot,
\* the transaction log and the snapshots unchanged.
C6_BuyOverCashRejected ==
    \A p \in Procs :
        LET pr == proc[p]
        IN  (/\ Priced(pr)
             /\ pr.type = "BUY"
             /\ pr.total_cost > base.sandboxes[pr.sandbox_id].balance)
            => /\ Store = base
               /\ pr.pc \in {"sandbox", "done"}
               /\ pr.pc = "done" => pr.result = "insufficient_funds"

\* a BUY beyond the cash has been turned away on a sandbox that has traded
C6_Witness ==
    /\ proc[1].pc = "done"
    /\ proc[1].type = "BUY"
    /\ proc[1].result = "insufficient_funds"
    /\ proc[1].total_cost > sandboxes[proc[1].sandbox_id].balance
    /\ transactions # <<>>
    /\ equity_history # {}

\* C7: a SELL whose quantity exceeds the quantity currently held of that
\* symbol (including a symbol not held at all) always fails with an
\* insufficient-shares error and leaves the cash balance, the lot, the
\* transaction log and the snapshots unchanged.
C7_SellOverHoldingRejected ==
    \A p \in Procs :
        LET pr == proc[p]
        IN  (/\ Priced(pr)
             /\ pr.type = "SELL"
             /\ pr.quantity > Held(base.portfolio, pr.sandbox_id, pr.symbol, pr.owner_id))
            => /\ Store = base
               /\ pr.pc \in {"sandbox", "sell_select", "done"}
               /\ pr.pc = "done" => pr.result = "insufficient_shares"

\* a SELL of more than the lot holds has been turned away
C7_Witness ==
    /\ proc[1].pc = "done"
    /\ proc[1].type = "SELL"
    /\ proc[1].result = "insufficient_shares"
    /\ Held(portfolio, proc[1].sandbox_id, proc[1].symbol, proc[1].owner_id) > 0
    /\ proc[1].quantity >
           Held(portfolio, proc[1].sandbox_id, proc[1].symbol, proc[1].owner_id)

\* C8: no partial trade is ever committed: if any single store write of a
\* trade fails, then none of that trade's writes remain in the store, so cash,
\* lots and transaction log are all as they were before the trade.
C8_NoPartialTrade ==
    \A p \in Procs :
        (/\ proc[p].pc = "done"
         /\ proc[p].result = "error"
         /\ proc[p].failed_at \in WritePositions)
            => Ledger(Store) = Ledger(base)

\* the caller may trade on the sandbox: its owner, or a grantee with edit
MayTrade(sid, caller) ==
    /\ sandboxes[sid].exists
    /\ \/ sandboxes[sid].user_id = caller
       \/ \E sh \in sandbox_shares :
             /\ sh.sandbox_id = sid
             /\ sh.shared_with_id = caller
             /\ sh.permission = "edit"

\* C9: a trade request from a caller who is neither the sandbox's owner nor a
\* grantee with 'edit' permission fails with an error and changes neither the
\* cash balance, the lots, the transaction log nor the snapshots.
C9_TradeNeedsEdit ==
    \A p \in Procs :
        LET pr == proc[p]
        IN  (pr.handler = "trade" /\ ~MayTrade(pr.sandbox_id, pr.caller))
            => /\ Store = base
               /\ pr.pc \in {"access", "access_share", "done"}
               /\ pr.pc = "done" => pr.result = "not_found"

\* the grantee whose share the owner has turned from 'edit' to 'watch', or
\* has removed, has been turned away
C9_Witness ==
    /\ proc[1].pc = "done"
    /\ proc[1].handler = "trade"
    /\ proc[1].result = "not_found"
    /\ proc[1].caller = 3
    /\ proc[1].sandbox_id = 1
    /\ sandboxes[1].exists
    /\ \A sh \in ShareRows(sandbox_shares, 1, 3) : sh.permission = "watch"

\* _check_sandbox_access has returned to the handler of thread p
Resolved(p) ==
    /\ proc[p].handler \in Views \cup {"trade"}
    /\ proc[p].pc \notin {"idle", "access", "access_share"}
    /\ proc[p].failed_at \notin {"access", "access_share"}

\* C10: once the access guard has returned to a handler, what it returned
\* is what the tables say: (owner id, "owner") when the caller owns the
\* sandbox; (owner id, the permission of the caller's share row) when the
\* caller is a grantee and the handler is a read, which requires "watch";
\* nothing when the sandbox does not exist or the caller neither owns it
\* nor has a share row.  get_portfolio and get_transactions answer 404 with
\* no data when it returned nothing, so a response with data comes only with
\* an access.
C10_ResolveAccess ==
    \A p \in Procs :
        Resolved(p) =>
            LET pr == proc[p]
                sb == sandboxes[pr.sandbox_id]
                rows == ShareRows(sandbox_shares, pr.sandbox_id, pr.caller)
            IN  /\ (sb.exists /\ sb.user_id = pr.caller)
                      => (pr.owner_id = sb.user_id /\ pr.permission = "owner")
                /\ (sb.exists /\ sb.user_id # pr.caller /\ rows # {} /\ pr.handler \in Views)
                      => (/\ pr.owner_id = sb.user_id
                          /\ pr.permission \in {r.permission : r \in rows})
                /\ (~sb.exists \/ (sb.user_id # pr.caller /\ rows = {}))
                      => (pr.owner_id = 0 /\ pr.permission = "")
                /\ (pr.handler \in Views /\ pr.owner_id = 0)
                      => (pr.pc = "done" /\ pr.result = "not_found"
                          /\ pr.response = NoResponse)
                /\ (pr.handler \in Views /\ pr.result = "ok") => pr.owner_id # 0

\* the grantee with watch has read the portfolio of sandbox 1, which holds a lot
C10_Witness ==
    \E p \in Procs :
        /\ proc[p].handler = "portfolio"
        /\ proc[p].pc = "done"
        /\ proc[p].result = "ok"
        /\ proc[p].caller = 2
        /\ proc[p].sandbox_id = 1
        /\ proc[p].owner_id = 1
        /\ proc[p].permission = "watch"
        /\ proc[p].response.portfolio # <<>>

\* the snapshot rows of one sandbox and one date
SnapshotRows(sid, date) ==
    {r \in equity_history : r.sandbox_id = sid /\ r.snapshot_date = date}

\* C11: whatever snapshots were written (by portfolio views, after trades, by
\* snapshot-all or by seeding), there is at most one row for a sandbox and a
\* date, and it carries the total, the cash and the holdings of the most
\* recent write for that sandbox and date
C11_OneRowPerDay ==
    \A sid \in SandboxIds, date \in Days :
        /\ Cardinality(SnapshotRows(sid, date)) <= 1
        /\ last_write[<<sid, date>>].written =>
              \E r \in SnapshotRows(sid, date) :
                  /\ r.total_equity = last_write[<<sid, date>>].total_equity
                  /\ r.cash_balance = last_write[<<sid, date>>].cash_balance
                  /\ r.holdings_value = last_write[<<sid, date>>].holdings_value

\* snapshot-all has rewritten the row of the day on which sandbox 1 was traded
C11_Witness ==
    \E p \in Procs :
        /\ proc[p].handler = "snapshot_all"
        /\ proc[p].pc = "done"
        /\ proc[p].caller = 1
        /\ proc[p].response.count = 1
        /\ now < DaySeconds
        /\ \E i \in Indices(transactions) : transactions[i].sandbox_id = 1
        /\ SnapshotRows(1, 0) # {}

\* the rows of a sequence of rows that belong to a sandbox
RowsOfSandbox(table, sid) == {i \in Indices(table) : table[i].sandbox_id = sid}

\* C12: once delete_sandbox has answered ok, no transaction row, no lot row
\* and no snapshot row with the id of the deleted sandbox remains
C12_DeleteLeavesNothing ==
    \A p \in Procs :
        (proc[p].handler = "delete" /\ proc[p].pc = "done" /\ proc[p].result = "ok") =>
            /\ RowsOfSandbox(transactions, proc[p].sandbox_id) = {}
            /\ RowsOfSandbox(portfolio, proc[p].sandbox_id) = {}
            /\ \A r \in equity_history : r.sandbox_id # proc[p].sandbox_id

\* the request pr is a trade of the given type that was executed and answered
Executed(pr, type) ==
    pr.handler = "trade" /\ pr.pc = "done" /\ pr.result = "ok" /\ pr.type = type

\* the request before pr, with nothing in between, was an executed BUY of the
\* symbol of pr on the sandbox of pr, which held none of it: the ledger at
\* the start of pr is the one at the start of that request plus its row
AfterFirstBuy(pr) ==
    /\ Len(base.transactions) = Len(earlier.transactions) + 1
    /\ SubSeq(base.transactions, 1, Len(earlier.transactions)) = earlier.transactions
    /\ LET first == base.transactions[Len(base.transactions)]
       IN  /\ first.type = "BUY"
           /\ first.sandbox_id = pr.sandbox_id
           /\ first.symbol = pr.symbol
    /\ LotsOf(earlier.portfolio, pr.sandbox_id, pr.symbol) = {}

\* the row of the request before pr
FirstBuy == base.transactions[Len(base.transactions)]

\* C13: for a symbol not held before, an executed BUY of quantity q at price p
\* followed at once by an executed SELL of quantity q at price p brings the
\* cash back to what it was before the BUY and leaves no lot of the symbol
C13_BuyThenSellRestores ==
    \A p \in Procs :
        LET pr == proc[p]
        IN  (/\ Executed(pr, "SELL")
             /\ AfterFirstBuy(pr)
             /\ FirstBuy.quantity = pr.quantity
             /\ FirstBuy.price = pr.price)
            => /\ sandboxes[pr.sandbox_id].balance
                      = earlier.sandboxes[pr.sandbox_id].balance
               /\ LotsOf(portfolio, pr.sandbox_id, pr.symbol) = {}

\* C14: after two executed BUYs of a symbol that was not held, of quantities
\* q1, q2 at prices p1, p2, the lot holds q1+q2 at the average cost
\* (q1*p1 + q2*p2)/(q1+q2); the first BUY of a symbol that is not held makes a
\* lot whose average cost is the execution price
C14_TwoBuysAverage ==
    \A p \in Procs :
        LET pr == proc[p]
        IN  /\ (Executed(pr, "BUY") /\ AfterFirstBuy(pr)) =>
                  LotsOf(portfolio, pr.sandbox_id, pr.symbol) =
                      {<<FirstBuy.quantity + pr.quantity,
                         Frac(FirstBuy.quantity * FirstBuy.price + pr.quantity * pr.price,
                              FirstBuy.quantity + pr.quantity)>>}
            /\ (Executed(pr, "BUY")
                /\ LotsOf(base.portfolio, pr.sandbox_id, pr.symbol) = {}) =>
                  LotsOf(portfolio, pr.sandbox_id, pr.symbol)
                      = {<<pr.quantity, <<pr.price, 1>>>>}

\* two BUYs of an unheld symbol were executed, of different quantities at
\* different prices
C14_Witness ==
    \E p \in Procs :
        /\ Executed(proc[p], "BUY")
        /\ AfterFirstBuy(proc[p])
        /\ FirstBuy.quantity # proc[p].quantity
        /\ FirstBuy.price # proc[p].price

\* the lot rows of a ledger other than those of a sandbox and a symbol
OtherLots(pf, sid, sym) ==
    SelectSeq(pf, LAMBDA row : ~(row.sandbox_id = sid /\ row.symbol = sym))

TradeAnswered(p) ==
    /\ proc[p].handler = "trade"
    /\ proc[p].pc # "done"
    /\ proc'[p].pc = "done"
    /\ proc'[p].result = "ok"

\* C16: when a trade has been executed and is answered, there is a snapshot
\* row for its sandbox and today whose cash is the new cash balance of the
\* trade and whose total is that cash plus the value of the holdings computed
\* after the trade
C16_SnapshotAfterEveryTrade ==
    [][\A p \in Procs :
          TradeAnswered(p) =>
              \E r \in equity_history' :
                  /\ r.sandbox_id = proc[p].sandbox_id
                  /\ r.snapshot_date = Today(now)
                  /\ r.cash_balance = Exact(proc[p].new_balance)
                  /\ r.total_equity
                         = Exact(proc[p].new_balance + proc'[p].holdings)]_vars

\* C17: when a trade has been executed and is answered, no equity curve is
\* cached for its sandbox, so that the next portfolio view computes the curve
\* anew from the snapshot rows or by seeding
C17_TradeDropsCachedCurve ==
    [][\A p \in Procs :
          TradeAnswered(p) => ~eq_cache'[proc[p].sandbox_id].present]_vars

\* history is the two-point curve: the initial balance at the creation of
\* the sandbox and at a time of the request, which is not after t
FlatCurve(history, created_at, initial_balance, t) ==
    /\ Len(history) = 2
    /\ history[1] = [timestamp |-> created_at * Millis, value |-> Exact(initial_balance)]
    /\ history[2].value = Exact(initial_balance)
    /\ history[2].timestamp <= t * Millis
    /\ history[2].timestamp >= created_at * Millis

\* the step with which the portfolio view of thread p, which was seeding the
\* curve, is answered
SeedAnswered(p) ==
    /\ proc[p].pc = "pf_seeded"
    /\ proc'[p].pc = "done"

\* C18: when the fetch of the historical price series has failed during the
\* seeding, the portfolio view is still answered ok, with the two-point curve
\* (creation time, initial balance), (now, initial balance) and with a
\* history error
C18_SeedFailureFallsBack ==
    [][\A p \in Procs :
          (SeedAnswered(p) /\ proc[p].seed.raised) =>
              /\ proc'[p].result = "ok"
              /\ proc'[p].response.history_error
              /\ FlatCurve(proc'[p].response.equity_history, proc[p].created_at,
                           proc[p].response.initial_balance, now)]_vars

\* the request pr of the given handler has been answered ok
Answered(pr, handler) ==
    pr.handler = handler /\ pr.pc = "done" /\ pr.result = "ok"

\* the price the valuation is to use for a lot: its average cost when the
\* fetch of its symbol failed or gave no price, else the price of the batch
FallbackPrice(item, prices, failed) ==
    IF item.symbol \in failed \/ item.symbol \notin DOMAIN prices
    THEN item.average_buy_price
    ELSE Exact(prices[item.symbol])

\* the value of the lots of a sandbox at those prices
FallbackHoldings(items, sid, prices, failed) ==
    FSum([i \in Indices(items) |->
             IF items[i].sandbox_id # sid THEN Exact(0)
             ELSE FMul(FallbackPrice(items[i], prices, failed), items[i].quantity)])

\* C19: a symbol whose fetch fails in a batch price lookup does not fail the
\* request, and get_portfolio and get_sandboxes value its lot at the average
\* cost of the lot
C19_FailedFetchValuedAtAverage ==
    \A p \in Procs :
        LET pr == proc[p]
        IN  /\ Answered(pr, "portfolio") =>
                  \A i \in Indices(pr.response.portfolio) :
                      pr.response.portfolio[i].symbol \in pr.failed =>
                          pr.response.portfolio[i].current_price
                              = pr.response.portfolio[i].average_buy_price
            /\ Answered(pr, "list") =>
                  \A i \in Indices(pr.response.sandboxes) :
                      pr.response.sandboxes[i].total_equity
                          = FAdd(Exact(pr.response.sandboxes[i].balance),
                                 FallbackHoldings(pr.items, pr.response.sandboxes[i].id,
                                                  pr.prices, pr.failed))

\* the step in which the trade of thread p looks its price up in the cache,
\* the body naming a symbol and a trade type
PriceLookedUp(p) ==
    /\ proc[p].pc = "price"
    /\ proc'[p].pc # "price"
    /\ proc'[p].result # "invalid_parameters"

\* the step in which the provider answers the trade of thread p
ProviderAnswered(p) ==
    /\ proc[p].pc = "price_fetch"
    /\ proc'[p].pc # "price_fetch"

\* the cache holds a price of the symbol that was written, by either lookup,
\* less than 300 s ago; the time of an entry is the clock at which it was
\* stored in _CACHE, after the provider had answered
WrittenRecently(sym) ==
    price_cache[sym].present /\ now - price_cache[sym].written < PRICE_TTL

\* C20 as stated: _get_current_price returns the cached price, leaving the
\* provider alone, when the cache holds an entry of the symbol written less
\* than 300 s ago; when the entry is 300 s old or older (or there is none) the
\* provider is asked: its price is returned and cached anew, or the lookup
\* gives no price
C20_PriceCachedFor300s ==
    [][\A p \in Procs :
          /\ PriceLookedUp(p) =>
                LET sym == proc'[p].symbol
                IN  /\ price_cache' = price_cache
                    /\ IF WrittenRecently(sym)
                       THEN /\ proc'[p].pc # "price_fetch"
                            /\ proc'[p].price = price_cache[sym].val
                       ELSE proc'[p].pc = "price_fetch"
          /\ ProviderAnswered(p) =>
                LET sym == proc[p].symbol
                IN  \/ /\ proc'[p].result = "no_price"
                       /\ price_cache' = price_cache
                    \/ /\ proc'[p].price \in Prices
                       /\ price_cache' =
                             [price_cache EXCEPT ![sym] =
                                 [present |-> TRUE, val |-> proc'[p].price,
                                  expiry |-> proc[p].looked_at + PRICE_TTL,
                                  written |-> now]]]_vars

\* C20: _get_current_price returns the cached price, leaving the provider
\* alone, exactly while the clock is below the expiry of the entry, which is
\* 300 s after the clock read at the start of the lookup that fetched it: an
\* entry that is returned was written less than 300 s ago, an entry 300 s old
\* or older is never returned, and an entry is returned for 300 s less the
\* time its provider took to answer.  Otherwise the provider is asked: its price
\* is returned and cached anew, or the lookup gives no price.  Either lookup
\* writes its entries so.
C20_PriceCachedUntilExpiry ==
    [][/\ \A p \in Procs :
             /\ PriceLookedUp(p) =>
                   LET sym == proc'[p].symbol
                       entry == price_cache[sym]
                       served == proc'[p].pc # "price_fetch"
                   IN  /\ price_cache' = price_cache
                       /\ served <=> (entry.present /\ now < entry.expiry)
                       /\ served => /\ proc'[p].price = entry.val
                                    /\ WrittenRecently(sym)
             /\ ProviderAnswered(p) =>
                   LET sym == proc[p].symbol
                   IN  /\ proc[p].looked_at <= now
                       /\ \/ /\ proc'[p].result = "no_price"
                             /\ price_cache' = price_cache
                          \/ /\ proc'[p].price \in Prices
                             /\ price_cache' =
                                   [price_cache EXCEPT ![sym] =
                                       [present |-> TRUE, val |-> proc'[p].price,
                                        expiry |-> proc[p].looked_at + PRICE_TTL,
                                        written |-> now]]
       /\ \A sym \in Symbols :
             price_cache'[sym] # price_cache[sym] =>
                /\ price_cache'[sym].present
                /\ price_cache'[sym].written = now
                /\ price_cache'[sym].expiry <= now + PRICE_TTL
                /\ \E p \in Procs : price_cache'[sym].expiry = proc[p].looked_at + PRICE_TTL]_vars

\* a trade was answered from the cache by an entry that a batch lookup had
\* written 299 s earlier (the price 0.0 of a fetch that raised, which only the
\* batch lookup caches): the request ends with no price and writes nothing
C20_Witness ==
    \E p \in Procs, sym \in Symbols :
        /\ proc[p].handler = "trade"
        /\ proc[p].pc = "done"
        /\ proc[p].result = "no_price"
        /\ proc[p].symbol = sym
        /\ price_cache[sym].present
        /\ price_cache[sym].val = 0
        /\ now - price_cache[sym].written = PRICE_TTL - 1

\* C21: seeding is deterministic and idempotent: a run of the seed step that
\* has the initial balance, creation date, log, price series and current date
\* of the run before it on the same sandbox produces the same sequence of
\* (date, total equity) points and leaves the same snapshot rows
C21_SeedIdempotent ==
    [][\A sid \in SandboxIds :
          (/\ seeded'[sid] # seeded[sid]
           /\ seeded[sid].ran
           /\ seeded'[sid].inputs = seeded[sid].inputs)
          => /\ seeded'[sid].history = seeded[sid].history
             /\ seeded'[sid].rows = seeded[sid].rows]_vars

\* sandbox 1 was seeded twice on the same inputs, with a trade in the log and
\* a close for its symbol, the second run after the live price had changed
C21_Witness ==
    /\ seeded[1].again
    /\ seeded[1].inputs.transactions # <<>>
    /\ ~seeded[1].inputs.empty
    /\ \E i \in Indices(seeded[1].inputs.transactions) :
          LET t == seeded[1].inputs.transactions[i]
          IN  /\ t.type = "BUY"
              /\ price_cache[t.symbol].present
              /\ price_cache[t.symbol].val # 0
              /\ price_cache[t.symbol].val # t.price

\* C22: a portfolio view of an existing sandbox by a caller with access is
\* answered with the portfolio (an entry for every lot, a curve), never with
\* an error, whatever the provider does: also when the fetch of the current
\* prices raises, when the fetch of the historical prices raises, or both
C22_PortfolioSurvivesProvider ==
    \A p \in Procs :
        LET pr == proc[p]
        IN  (/\ pr.handler = "portfolio"
             /\ pr.pc = "done"
             /\ pr.owner_id # 0
             /\ sandboxes[pr.sandbox_id].exists)
            => /\ pr.result = "ok"
               /\ Len(pr.response.portfolio) = Len(pr.items)
               /\ pr.response.equity_history # <<>>

\* a portfolio view with a lot was answered after both the fetch of the
\* current prices and the fetch of the historical prices had raised
C22_Witness ==
    \E p \in Procs :
        /\ Answered(proc[p], "portfolio")
        /\ proc[p].failed # {}
        /\ proc[p].seed.raised
        /\ proc[p].response.portfolio # <<>>

\* what the program holds for one sandbox: its sandboxes row (with the cash),
\* its lots, its log, its snapshot rows and its cached curve
SandboxContent(sbs, pf, txs, eh, cache, sid) ==
    [row |-> sbs[sid],
     lots |-> SelectSeq(pf, LAMBDA r : r.sandbox_id = sid),
     log |-> SelectSeq(txs, LAMBDA r : r.sandbox_id = sid),
     snapshots |-> {r \in eh : r.sandbox_id = sid},
     curve |-> cache[sid]]

\* C23: every step of a trade, a portfolio view or a delete on a sandbox A
\* leaves the cash, the lots, the log, the snapshot rows and the cached
\* curve of every other sandbox B as they were
C23_SandboxesIsolated ==
    [][\A p \in Procs :
          (/\ proc'[p] # proc[p]
           /\ proc'[p].handler \in {"trade", "portfolio", "delete"}
           /\ proc'[p].pc # "idle")
          => \A B \in SandboxIds \ {proc'[p].sandbox_id} :
                SandboxContent(sandboxes', portfolio', transactions',
                               equity_history', eq_cache', B)
                  = SandboxContent(sandboxes, portfolio, transactions,
                                   equity_history, eq_cache, B)]_vars

\* a BUY on sandbox 1 was executed while sandbox 2 held a lot of the same
\* symbol, a log row and a snapshot row
C23_Witness ==
    \E p \in Procs :
        /\ Executed(proc[p], "BUY")
        /\ proc[p].sandbox_id = 1
        /\ \E i \in RowsOfSandbox(portfolio, 1), j \in RowsOfSandbox(portfolio, 2) :
              /\ portfolio[i].symbol = portfolio[j].symbol
              /\ j < i
        /\ RowsOfSandbox(transactions, 2) # {}
        /\ SnapshotRows(2, 0) # {}

\* the price lookup of the trade of thread p obtains no price: the fresh entry
\* of the cache is the price 0, or the provider, asked for want of a fresh
\* entry, leaves none behind (it gave nothing, or raised)
NoPriceObtained(p) ==
    \/ /\ PriceLookedUp(p)
       /\ Fresh(price_cache, now, proc'[p].symbol)
       /\ price_cache[proc'[p].symbol].val = 0
    \/ /\ ProviderAnswered(p)
       /\ price_cache' = price_cache

\* C24: a trade for which no price can be obtained is answered with the
\* quote-unavailable error by the one lookup (the provider is not asked
\* again, the cache stays as it was) and the cash, the lots, the log and the
\* snapshots are what they were when the request started
C24_NoPriceNoTrade ==
    [][\A p \in Procs :
          NoPriceObtained(p) =>
              /\ proc'[p].pc = "done"
              /\ proc'[p].result = "no_price"
              /\ price_cache' = price_cache
              /\ Store' = Store
              /\ Store = base]_vars

\* the owner's trade on a sandbox that has traded was turned away for want of
\* a price, by a provider that was asked and had none
C24_Witness ==
    \E p \in Procs :
        /\ proc[p].handler = "trade"
        /\ proc[p].pc = "done"
        /\ proc[p].result = "no_price"
        /\ proc[p].permission = "owner"
        /\ ~Fresh(price_cache, now, proc[p].symbol)
        /\ RowsOfSandbox(transactions, proc[p].sandbox_id) # {}

\* the sum of price * quantity over the logged trades of a type dated on or
\* before day d
TradedUpTo(txs, type, d) ==
    SumOf([i \in Indices(txs) |->
              IF txs[i].type = type /\ Today(txs[i].executed_at) <= d
              THEN txs[i].price * txs[i].quantity ELSE 0])

\* the quantity of a symbol bought less the quantity sold, on or before day d
NetQuantityBy(txs, sym, d) ==
    SumOf([i \in Indices(txs) |->
              IF txs[i].symbol = sym /\ Today(txs[i].executed_at) <= d
              THEN IF txs[i].type = "BUY" THEN txs[i].quantity
                   ELSE IF txs[i].type = "SELL" THEN 0 - txs[i].quantity ELSE 0
              ELSE 0])

\* cash, holdings value and total of day d as the log and the price series
\* give them
DayCash(initial, txs, d) ==
    initial - TradedUpTo(txs, "BUY", d) + TradedUpTo(txs, "SELL", d)

DayHoldings(txs, empty, column, d) ==
    SumOf([s \in TransactionSymbols(txs) |->
              IF empty THEN 0 ELSE NetQuantityBy(txs, s, d) * column[s][d]])

DayTotal(initial, txs, empty, column, d) ==
    DayCash(initial, txs, d) + DayHoldings(txs, empty, column, d)

\* C25: while and after a curve is seeded, for every day d from the start
\* date on, the replay's cash of d is the initial balance less the BUYs plus
\* the SELLs dated on or before d, its holdings value is the sum over the
\* symbols of the net quantity at the end of d times the close of d (0 for a
\* symbol without price data), its total is cash plus holdings value, and the
\* point of d on the curve is that total in cents
C25_SeedReplaysLedger ==
    \A p \in Procs :
        LET pr == proc[p]
            sd == pr.seed
            initial == pr.response.initial_balance
            start == StartDate(pr.created_at, pr.txs)
        IN  (pr.handler = "portfolio" /\ sd.history # <<>>) =>
                /\ Len(sd.history) = sd.day - start
                /\ sd.current_cash = DayCash(initial, pr.txs, sd.day - 1)
                /\ sd.equity_holdings
                      = DayHoldings(pr.txs, sd.empty, sd.column, sd.day - 1)
                /\ sd.total_equity = sd.current_cash + sd.equity_holdings
                /\ \A i \in Indices(sd.history) :
                      /\ sd.history[i].timestamp = DateMillis(start + i - 1)
                      /\ sd.history[i].value
                            = Cents(Round2(DayTotal(initial, pr.txs, sd.empty,
                                                    sd.column, start + i - 1)))

\* a curve of two days was seeded for a sandbox that bought and sold on the
\* first day and still holds a quantity with a close
C25_Witness ==
    \E p \in Procs :
        /\ Answered(proc[p], "portfolio")
        /\ Len(proc[p].seed.history) = 2
        /\ proc[p].seed.equity_holdings > 0
        /\ \E i \in Indices(proc[p].txs) : proc[p].txs[i].type = "SELL"
        /\ proc[p].seed.current_cash # proc[p].response.initial_balance

\* C26: once a seed of a sandbox has completed, a later curve lookup of that
\* sandbox that misses the cache finds two or more snapshot rows and answers
\* with them, without entering the seed again
C26_SeedOnlyOnce ==
    [][\A p \in Procs :
          LET sid == proc[p].sandbox_id
              rows == SelectHistory(equity_history, sid)
          IN  (/\ proc[p].pc = "pf_rows"
               /\ proc'[p].pc # "pf_rows"
               /\ seeded[sid].ran)
              => /\ Len(rows) >= 2
                 /\ proc'[p].pc = "pf_cache"
                 /\ proc'[p].history = HistoryOfRows(rows)]_vars

\* C27: a portfolio response whose curve is the two-point fallback of a
\* failed seed carries the history error, also when the curve comes out of
\* the cache, where the failed seed left it for 900 s
C27_FallbackCarriesError ==
    \A p \in Procs :
        LET pr == proc[p]
            entry == eq_cache[pr.sandbox_id]
        IN  (/\ Answered(pr, "portfolio")
             /\ entry.present
             /\ entry.fallback
             /\ pr.response.equity_history = entry.val)
            => pr.response.history_error

\* C28: whatever trades have run, also BUYs of a symbol not held before that
\* run at the same time, sandbox_portfolio holds at most one lot row for a
\* sandbox and a symbol
C28_OneLotPerSymbol ==
    \A i, j \in Indices(portfolio) :
        (/\ portfolio[i].sandbox_id = portfolio[j].sandbox_id
         /\ portfolio[i].symbol = portfolio[j].symbol)
        => i = j

\* the quantity of a symbol in the log rows of a type of a sandbox
RECURSIVE LoggedQuantity(_, _, _, _)
LoggedQuantity(log, sid, sym, type) ==
    IF log = <<>> THEN 0
    ELSE (IF Head(log).sandbox_id = sid /\ Head(log).symbol = sym /\ Head(log).type = type
          THEN Head(log).quantity ELSE 0)
         + LoggedQuantity(Tail(log), sid, sym, type)

\* C29: whatever trades have run, also at the same time, the SELL rows of a
\* sandbox and a symbol in the log never add up to more than its BUY rows: no
\* share is sold twice.  Stated on the states in which every trade has been
\* answered, where each executed trade has its row in the log.
C29_NeverOversold ==
    (\A p \in Procs : proc[p].pc \in {"idle", "done"}) =>
        \A sid \in SandboxIds, sym \in Symbols :
            LoggedQuantity(transactions, sid, sym, "SELL")
                <= LoggedQuantity(transactions, sid, sym, "BUY")

\* trades run one after another do not reach the state after the owner's BUY
\* (refuted: they do)
HeldNotReached == ~InitHeld

\* C30: when the trade requests on a sandbox ran one after another, the cash
\* that a completed seed replay holds after its last day, today, is the
\* balance of the sandbox that the same portfolio view read from the store
C30_ReplayCashIsBalance ==
    \A p \in Procs :
        LET pr == proc[p]
        IN  (Answered(pr, "portfolio") /\ pr.seed.history # <<>>) =>
                /\ pr.seed.day = pr.seed.end_date + 1
                /\ pr.seed.current_cash = pr.response.cash_balance
                /\ pr.seed.current_cash = sandboxes[pr.sandbox_id].balance

====
